---- MODULE Spec2Model ----
(***************************************************************************)
(* A model of the CSV reader of toastedbreadandomelette/nn:                *)
(*   - the column type merge CellType::infer_type (src/src/cell.rs),       *)
(*   - the line partitioner CsvParser::get_total_lines_in_a_file,          *)
(*   - the header scanner, the tokenizer and the two entry points          *)
(*     CsvParser::parse and CsvParser::parse_multi_threaded                *)
(*     (src/src/parser.rs),                                                *)
(*   - the tokenizer of src/src/parse_state.rs, read next to CsvParser's   *)
(*     own on the same bytes,                                              *)
(*   - DataFrame::iter_col and the column iterator (src/src/dframe.rs,     *)
(*     src/src/iter/mod.rs).                                               *)
(* Bytes are their ASCII codes, buffers are sequences of bytes, offsets    *)
(* are 0-based as in the source (buffer[i] of the source is buf[i + 1]).   *)
(***************************************************************************)
EXTENDS Integers, Sequences, FiniteSets, TLC

VARIABLES
    \* ---- pure application of infer_type (SpecInfer)
    ta, tb, tc,         \* the operands drawn
    rAB, rBA,           \* ta.infer_type(tb), tb.infer_type(ta)
    rABthenC, rAthenBC, \* (ta.tb).tc and ta.(tb.tc)
    \* ---- the column fold (SpecFold)
    fcells,             \* the cell types of one column, in row order
    fsplit,             \* the split of the rows: row -> shard, in shard order
    fpending,           \* rows whose cell is not merged yet
    facc,               \* per-shard accumulated type, seeded at Null
    ffold,              \* shards whose result is not folded yet
    ffinal,             \* the type folded so far
    fselfIsPrev,        \* TRUE: prev.infer_type(obs); FALSE: obs.infer_type(prev)
    flast,              \* the last merge: [prev, obs, res]
    \* ---- the line partitioner (SpecPartition)
    mmaped_buffer,      \* the buffer handed to get_total_lines_in_a_file
    thread_number,      \* the shard count handed to it
    ppc,                \* "ranges", "count", "counted" or "panic"
    slices,             \* the (start, end) ranges computed
    ptask,              \* the counting task in flight: [st, idx, count]
    length,             \* the (count, start, end) descriptors joined so far
    \* ---- parse and parse_multi_threaded on one file (Spec)
    mmaped,             \* the bytes of the file
    total_threads,      \* the shard count given to parse_multi_threaded
    single,             \* what parse(path) gave: [outcome, column_data, header]
    mpc,                \* where parse_multi_threaded is
    scanned_header,     \* its header
    result,             \* its flat array
    sliced_buffer,      \* the views [off, len] into result, one per shard
    workers,            \* per shard: "idle", "spawned", "done" or "panic"
    oob,                \* a worker wrote past the end of result
    \* ---- the tokenizers, byte by byte on one buffer (SpecScan)
    byte_buffer,        \* the bytes handed to the tokenizers
    byte_index,         \* the index of the byte to read next
    turn,               \* whose step it is at this byte
    content,            \* the scan of parse_content
    on_buffer,          \* the scan of parse_content_on_buffer
    states,             \* CsvParser's state after each byte read
    ps_states,          \* parse_state.rs: ParseState after each byte read
    \* ---- scan_header, one arm of its loop at a time (SpecHeader)
    hdr_buffer,         \* the bytes handed to the header scanner
    hdr_offset,         \* self.offset
    hdr_state,          \* self.state
    hdr_scanned,        \* self.header_scanned
    hdr_pc,             \* "skip", "loop", "returned" or "hang"
    \* ---- a DataFrame and a column iterator on it (SpecFrame)
    frame,              \* the DataFrame: [column_data, header]
    col,                \* the name given to iter_col
    iter,               \* the iterator: [index, col_size]
    yielded,            \* the cells next() has returned, in order
    fr_pc,              \* "frame", "iterating", "absent", "ended" or "panic"
    nth_out,            \* the last call of nth: [n, outcome, at]
    \* ---- the workers of parse_multi_threaded, one write at a time (SpecWrite)
    arr_index,          \* per worker: the cells it has emitted so far
    writers             \* per index of the views: the workers that wrote there

inferVars == <<ta, tb, tc, rAB, rBA, rABthenC, rAthenBC>>
foldVars == <<fcells, fsplit, fpending, facc, ffold, ffinal, fselfIsPrev, flast>>
partVars == <<mmaped_buffer, thread_number, ppc, slices, ptask, length>>
pipeVars == <<mmaped, total_threads, single, mpc, scanned_header, result,
              sliced_buffer, workers, oob>>
scanVars == <<byte_buffer, byte_index, turn, content, on_buffer, states, ps_states>>
hdrVars == <<hdr_buffer, hdr_offset, hdr_state, hdr_scanned, hdr_pc>>
frameVars == <<frame, col, iter, yielded, fr_pc, nth_out>>
writeVars == <<arr_index, writers>>
vars == <<inferVars, foldVars, partVars, pipeVars, scanVars, hdrVars,
          frameVars, writeVars>>

(***************************************************************************)
(* cell.rs: CellType and the type merge                                    *)
(***************************************************************************)
CellType == {"String", "I64", "F64", "Null"}

\* a result slot no operation has written yet
NoType == "-"

\* mutant: the F64 arm answers F64 whatever the other operand is
infer_from_f64_AlwaysF64(self) == "F64"

infer_from_f64(self) ==
    IF self = "String" THEN "String" ELSE self

infer_from_i64(self) ==
    IF self \in {"I64", "Null"} THEN "I64" ELSE self

infer_type(self, current_type) ==
    CASE self = "Null" -> current_type
      [] self = "F64" -> infer_from_f64(current_type)
      [] self = "I64" -> infer_from_i64(current_type)
      [] OTHER -> "String"

\* The order Null < I64 < F64 < String of the type lattice.
TypeRank(t) ==
    CASE t = "Null" -> 0
      [] t = "I64" -> 1
      [] t = "F64" -> 2
      [] OTHER -> 3

TypeMax(a, b) == IF TypeRank(a) >= TypeRank(b) THEN a ELSE b

(***************************************************************************)
(* SpecInfer: infer_type applied to operands drawn from CellType           *)
(***************************************************************************)
NoMerge == [prev |-> NoType, obs |-> NoType, res |-> NoType]

InferIdle ==
    /\ ta = "Null" /\ tb = "Null" /\ tc = "Null"
    /\ rAB = NoType /\ rBA = NoType /\ rABthenC = NoType /\ rAthenBC = NoType

FoldIdle ==
    /\ fcells = <<>> /\ fsplit = <<>> /\ fpending = {}
    /\ facc = <<"Null">> /\ ffold = {} /\ ffinal = "Null"
    /\ fselfIsPrev = TRUE
    /\ flast = NoMerge

NoTask == [st |-> "none", idx |-> 0, count |-> 0]

PartIdle ==
    /\ mmaped_buffer = <<>> /\ thread_number = 1 /\ ppc = "idle"
    /\ slices = <<>> /\ ptask = NoTask /\ length = <<>>

NotCalled == [outcome |-> "none", column_data |-> <<>>, header |-> <<>>]

PipeIdle ==
    /\ mmaped = <<>> /\ total_threads = 1 /\ single = NotCalled
    /\ mpc = "idle" /\ scanned_header = <<>> /\ result = <<>>
    /\ sliced_buffer = <<>> /\ workers = <<>> /\ oob = FALSE

\* parser.rs lines 110-119, 593-594, 700-703: the scan of a new CsvParser
ScanInit ==
    [state |-> "Start", start |-> 0, start_used |-> TRUE, out |-> <<>>,
     panic |-> FALSE]

ScanIdle ==
    /\ byte_buffer = <<>> /\ byte_index = 0 /\ turn = "idle"
    /\ content = ScanInit /\ on_buffer = ScanInit
    /\ states = <<>> /\ ps_states = <<>>

HdrIdle ==
    /\ hdr_buffer = <<>> /\ hdr_offset = 0 /\ hdr_state = "Start"
    /\ hdr_scanned = <<>> /\ hdr_pc = "idle"

\* no iterator: iter_col has not been called, or has returned None
NoIter == [index |-> 0, col_size |-> 0]

\* nth has not been called
NoNth == [n |-> 0, outcome |-> "-", at |-> 0]

FrameIdle ==
    /\ frame = [column_data |-> <<>>, header |-> <<>>] /\ col = <<>>
    /\ iter = NoIter /\ yielded = <<>> /\ fr_pc = "idle"
    /\ nth_out = NoNth

WriteIdle == arr_index = <<>> /\ writers = {}

InitInfer ==
    /\ ta \in CellType /\ tb \in CellType /\ tc \in CellType
    /\ rAB = NoType /\ rBA = NoType /\ rABthenC = NoType /\ rAthenBC = NoType
    /\ FoldIdle /\ PartIdle /\ PipeIdle /\ ScanIdle
    /\ HdrIdle /\ FrameIdle /\ WriteIdle

ApplyAB ==
    /\ rAB = NoType
    /\ rAB' = infer_type(ta, tb)
    /\ UNCHANGED <<ta, tb, tc, rBA, rABthenC, rAthenBC, foldVars, partVars, pipeVars, scanVars,
                   hdrVars, frameVars, writeVars>>

ApplyBA ==
    /\ rBA = NoType
    /\ rBA' = infer_type(tb, ta)
    /\ UNCHANGED <<ta, tb, tc, rAB, rABthenC, rAthenBC, foldVars, partVars, pipeVars, scanVars,
                   hdrVars, frameVars, writeVars>>

ApplyABthenC ==
    /\ rABthenC = NoType
    /\ rABthenC' = infer_type(infer_type(ta, tb), tc)
    /\ UNCHANGED <<ta, tb, tc, rAB, rBA, rAthenBC, foldVars, partVars, pipeVars, scanVars,
                   hdrVars, frameVars, writeVars>>

ApplyAthenBC ==
    /\ rAthenBC = NoType
    /\ rAthenBC' = infer_type(ta, infer_type(tb, tc))
    /\ UNCHANGED <<ta, tb, tc, rAB, rBA, rABthenC, foldVars, partVars, pipeVars, scanVars,
                   hdrVars, frameVars, writeVars>>

NextInfer == ApplyAB \/ ApplyBA \/ ApplyABthenC \/ ApplyAthenBC

SpecInfer == InitInfer /\ [][NextInfer]_vars

\* C2: infer_type returns, for all 16 operand pairs, the maximum under
\* Null < I64 < F64 < String.
C2_MergeIsMax ==
    rAB # NoType => rAB = TypeMax(ta, tb)

\* C3: the merge is commutative: a.infer_type(b) = b.infer_type(a).
C3_Commutative ==
    (rAB # NoType /\ rBA # NoType) => rAB = rBA

\* C4: the merge is associative: (a merged with b) merged with c equals
\* a merged with (b merged with c).
C4_Associative ==
    (rABthenC # NoType /\ rAthenBC # NoType) => rABthenC = rAthenBC

\* C5: Null is a two-sided identity: Null.infer_type(t) = t and
\* t.infer_type(Null) = t.
C5_NullIdentity ==
    /\ (rAB # NoType /\ ta = "Null") => rAB = tb
    /\ (rAB # NoType /\ tb = "Null") => rAB = ta

(***************************************************************************)
(* SpecFold: the types of one column's cells are merged per shard, seeded  *)
(* at Null, in any order; the per-shard results are then folded, in any    *)
(* order.                                                                   *)
(***************************************************************************)
MaxCells == 3
MaxShards == 2

\* merge(prev, observed), with the accumulated type in either operand position
Merge(prev, obs) ==
    IF fselfIsPrev THEN infer_type(prev, obs) ELSE infer_type(obs, prev)

\* the splits of rows 1..n into k contiguous shards, in shard order
Splits(n, k) ==
    {f \in [1..n -> 1..k] : \A i \in 1..n, j \in 1..n : i <= j => f[i] <= f[j]}

InitFold ==
    /\ \E n \in 1..MaxCells : fcells \in [1..n -> CellType]
    /\ \E k \in 1..MaxShards : fsplit \in Splits(Len(fcells), k)
                                /\ facc = [s \in 1..k |-> "Null"]
                                /\ ffold = 1..k
    /\ fpending = 1..Len(fcells)
    /\ ffinal = "Null"
    /\ fselfIsPrev \in BOOLEAN
    /\ flast = NoMerge
    /\ InferIdle /\ PartIdle /\ PipeIdle /\ ScanIdle
    /\ HdrIdle /\ FrameIdle /\ WriteIdle

\* a worker merges the type of the cell of row i into its shard's type
MergeCell(i) ==
    /\ i \in fpending
    /\ LET s == fsplit[i]
           res == Merge(facc[s], fcells[i])
       IN /\ facc' = [facc EXCEPT ![s] = res]
          /\ flast' = [prev |-> facc[s], obs |-> fcells[i], res |-> res]
    /\ fpending' = fpending \ {i}
    /\ UNCHANGED <<fcells, fsplit, ffold, ffinal, fselfIsPrev, inferVars, partVars, pipeVars, scanVars,
                   hdrVars, frameVars, writeVars>>

\* after the workers are done, the result of shard s is folded in
FoldShard(s) ==
    /\ fpending = {}
    /\ s \in ffold
    /\ LET res == Merge(ffinal, facc[s])
       IN /\ ffinal' = res
          /\ flast' = [prev |-> ffinal, obs |-> facc[s], res |-> res]
    /\ ffold' = ffold \ {s}
    /\ UNCHANGED <<fcells, fsplit, fpending, facc, fselfIsPrev, inferVars, partVars, pipeVars, scanVars,
                   hdrVars, frameVars, writeVars>>

NextFold ==
    \/ \E i \in 1..MaxCells : MergeCell(i)
    \/ \E s \in 1..MaxShards : FoldShard(s)

SpecFold == InitFold /\ [][NextFold]_vars

\* the types merged so far into shard s
MergedInto(s) ==
    {fcells[i] : i \in {j \in DOMAIN fcells : fsplit[j] = s /\ j \notin fpending}}

\* C6: folding the merge, seeded at Null, over observations from
\* {Null, I64, F64} yields F64 as soon as one F64 was observed, and I64 when
\* the non-Null observations are all I64 (at least one), in either operand
\* position.
C6_NumericFold ==
    \A s \in DOMAIN facc :
        MergedInto(s) \subseteq {"Null", "I64", "F64"} =>
            /\ "F64" \in MergedInto(s) => facc[s] = "F64"
            /\ ("F64" \notin MergedInto(s) /\ "I64" \in MergedInto(s))
                   => facc[s] = "I64"

\* C7: String is absorbing: merging a String observation into any accumulated
\* type yields String, and an accumulated String stays String under every
\* further merge, in either operand position.
C7_StringAbsorbing ==
    (flast.obs = "String" \/ flast.prev = "String") => flast.res = "String"

\* C7 witness: an accumulated String took a further F64 observation, the
\* observation being the receiver of infer_type, and stayed String.
C7_Witness ==
    /\ ~fselfIsPrev
    /\ flast.prev = "String" /\ flast.obs = "F64" /\ flast.res = "String"

\* the reference run: one shard, the cells merged in row order
RECURSIVE FoldRows(_, _)
FoldRows(cells, acc) ==
    IF cells = <<>> THEN acc
    ELSE FoldRows(Tail(cells), Merge(acc, Head(cells)))

\* C8: the final type of a column is the same for every split of the rows
\* into shards, every order of merging and every order of folding: every run
\* ends with the type of the one-shard, row-order run.
C8_SplitOrderIndependent ==
    (fpending = {} /\ ffold = {}) =>
        ffinal = Merge("Null", FoldRows(fcells, "Null"))

(***************************************************************************)
(* parser.rs: bytes and slices                                             *)
(***************************************************************************)
LF == 10
CR == 13

\* buffer[i] of the source, i counted from 0
At(buf, i) == buf[i + 1]

\* &buffer[s..e] of the source
Slice(buf, s, e) == SubSeq(buf, s + 1, e)

Min(S) == CHOOSE x \in S : \A y \in S : x <= y

\* buf[from..].iter().position(|c| *c == b'\n'): the offset, relative to
\* `from`, of the first LF at or after `from`; -1 stands for None
PositionLF(buf, from) ==
    LET hits == {i \in from..(Len(buf) - 1) : At(buf, i) = LF}
    IN IF hits = {} THEN -1 ELSE Min(hits) - from

\* match position { Some(index) => index, None => 0 } + from
SeekLF(buf, from) ==
    (IF PositionLF(buf, from) = -1 THEN 0 ELSE PositionLF(buf, from)) + from

Max(S) == CHOOSE x \in S : \A y \in S : x >= y

\* u8::is_ascii_whitespace: space, tab, LF, form feed, CR
is_ascii_whitespace(c) == c \in {32, 9, 10, 12, 13}

\* lines 820-832: CsvParser::trim_ascii; a slice of whitespace only has no
\* start and no end and is returned whole
trim_ascii(slice) ==
    LET keep == {i \in 0..(Len(slice) - 1) : ~is_ascii_whitespace(At(slice, i))}
    IN IF keep = {} THEN slice
       ELSE Slice(slice, Min(keep), Max(keep) + 1)

(***************************************************************************)
(* parser.rs: CsvParser::get_total_lines_in_a_file                         *)
(***************************************************************************)
slots_division(buf, n) == Len(buf) \div n

\* the closure of slices.extend((1..thread_number - 1).map(..)), applied for
\* multiplier, multiplier + 1, ..; slicing &buf[spos..epos] with spos > epos
\* panics
RECURSIVE MiddleSlices(_, _, _, _, _)
MiddleSlices(buf, n, multiplier, end_prefix, acc) ==
    IF multiplier >= n - 1
    THEN [panic |-> FALSE, slices |-> acc, end_prefix |-> end_prefix]
    ELSE LET spos == end_prefix + 1
             end_pos == (multiplier + 1) * slots_division(buf, n)
             epos == SeekLF(buf, end_pos)
         IN IF spos > epos
            THEN [panic |-> TRUE, slices |-> acc, end_prefix |-> end_prefix]
            ELSE MiddleSlices(buf, n, multiplier + 1, epos,
                              Append(acc, <<spos, epos>>))

\* the ranges pushed to `slices`: the first, the middle ones and the last
ShardRanges(buf, n) ==
    LET end_prefix == SeekLF(buf, slots_division(buf, n))
        mid == MiddleSlices(buf, n, 1, end_prefix, <<<<0, end_prefix>>>>)
    IN IF mid.panic
       THEN [panic |-> TRUE, slices |-> <<>>]
       ELSE [panic |-> FALSE,
             slices |-> Append(mid.slices, <<mid.end_prefix, Len(buf)>>)]

\* slice.split(|c| *c == b'\n').count(): one more than the LFs of the slice
SplitCount(buf, s, e) ==
    Cardinality({i \in s..(e - 1) : At(buf, i) = LF}) + 1

\* the value returned: one (count, start, end) per range
get_total_lines_in_a_file(buf, n) ==
    LET r == ShardRanges(buf, n)
    IN IF r.panic THEN <<>>
       ELSE [i \in 1..Len(r.slices) |->
                <<SplitCount(buf, r.slices[i][1], r.slices[i][2]),
                  r.slices[i][1], r.slices[i][2]>>]

(***************************************************************************)
(* parser.rs: the tokenizer's transition function (the ParseState of       *)
(* parser.rs, lines 27-105, which is the one CsvParser uses)               *)
(***************************************************************************)
Quote == 34
Comma == 44
Point == 46
Digit0 == 48
Digit9 == 57

IsDigit(c) == c >= Digit0 /\ c <= Digit9

\* mutant: a point read after a point keeps the cell a decimal
CsvParser_handle_decimal_state_KeepsDecimal(initial_state) ==
    CASE initial_state \in {"CellNumberCurrent", "CellNumberStart",
                            "CellDecimalStartWithPointRead",
                            "CellDecimalCurrentWithPointRead"}
            -> "CellDecimalCurrentWithPointRead"
      [] initial_state \in {"CellQuoteStart", "CellQuoteNumberStart",
                            "CellQuoteNumberCurrent",
                            "CellQuoteDecimalStartWithPointRead",
                            "CellQuoteDecimalCurrentWithPointRead"}
            -> "CellQuoteDecimalCurrentWithPointRead"
      [] initial_state = "CellQuoteCurrent" -> "CellQuoteCurrent"
      [] initial_state \in {"CellString", "CellCurrent"} -> "CellCurrent"
      [] OTHER -> "CellDecimalStartWithPointRead"

\* lines 293-328
CsvParser_handle_decimal_state(initial_state) ==
    CASE initial_state \in {"CellNumberCurrent", "CellNumberStart"}
            -> "CellDecimalCurrentWithPointRead"
      [] initial_state = "CellQuoteStart"
            -> "CellQuoteDecimalStartWithPointRead"
      [] initial_state = "CellQuoteCurrent" -> "CellQuoteCurrent"
      [] initial_state \in {"CellQuoteNumberStart", "CellQuoteNumberCurrent"}
            -> "CellQuoteDecimalCurrentWithPointRead"
      [] initial_state \in {"CellQuoteDecimalStartWithPointRead",
                            "CellQuoteDecimalCurrentWithPointRead"}
            -> "CellQuoteCurrent"
      [] initial_state \in {"CellString", "CellDecimalStartWithPointRead",
                            "CellDecimalCurrentWithPointRead", "CellCurrent"}
            -> "CellCurrent"
      [] OTHER -> "CellDecimalStartWithPointRead"

\* lines 333-355
CsvParser_handle_default(initial_state) ==
    CASE initial_state \in {"CellQuoteStart", "CellQuoteCurrent"}
            -> "CellQuoteCurrent"
      [] initial_state \in {"CellString", "CellCurrent", "CellNumberCurrent",
                            "CellDecimalCurrent",
                            "CellDecimalStartWithPointRead",
                            "CellDecimalCurrentWithPointRead",
                            "CellQuoteDecimalStartWithPointRead",
                            "CellQuoteDecimalCurrentWithPointRead"}
            -> "CellCurrent"
      [] OTHER -> "CellString"

\* lines 360-386
CsvParser_handle_separator(initial_state) ==
    CASE initial_state \in {"CellQuoteCurrent", "CellQuoteStart",
                            "CellQuoteDecimalCurrent", "CellQuoteDecimalStart",
                            "CellQuoteDecimalStartWithPointRead",
                            "CellQuoteDecimalCurrentWithPointRead"}
            -> "CellQuoteCurrent"
      [] initial_state \in {"CellNumberCurrent", "CellNumberStart"}
            -> "CellNumberEnd"
      [] initial_state \in {"CellDecimalCurrent", "CellDecimalStart",
                            "CellDecimalStartWithPointRead",
                            "CellDecimalCurrentWithPointRead"}
            -> "CellDecimalEnd"
      [] OTHER -> "CellSep"

\* lines 389-423
CsvParser_handle_number(initial_state) ==
    CASE initial_state \in {"CellQuoteDecimalStartWithPointRead",
                            "CellQuoteDecimalCurrentWithPointRead"}
            -> "CellQuoteDecimalCurrentWithPointRead"
      [] initial_state \in {"CellQuoteStart", "CellQuoteNumberStart",
                            "CellQuoteNumberCurrent"}
            -> "CellQuoteNumberCurrent"
      [] initial_state = "CellQuoteCurrent" -> "CellQuoteCurrent"
      [] initial_state \in {"CellNumberCurrent", "CellNumberStart"}
            -> "CellNumberCurrent"
      [] initial_state \in {"CellDecimalStartWithPointRead",
                            "CellDecimalCurrentWithPointRead"}
            -> "CellDecimalCurrentWithPointRead"
      [] initial_state \in {"CellDecimalCurrent", "CellDecimalStart"}
            -> "CellDecimalCurrent"
      [] initial_state \in {"CellString", "CellCurrent"} -> "CellCurrent"
      [] OTHER -> "CellNumberStart"

\* lines 436-468
CsvParser_handle_lf(initial_state, c) ==
    CASE initial_state \in {"CellQuoteCurrent", "CellQuoteStart",
                            "CellQuoteDecimalCurrent", "CellQuoteDecimalStart",
                            "CellQuoteDecimalStartWithPointRead",
                            "CellQuoteDecimalCurrentWithPointRead"}
            -> "CellQuoteCurrent"
      [] initial_state \in {"CellNumberCurrent", "CellNumberStart"}
            -> "CellNumberEnd"
      [] initial_state \in {"CellDecimalCurrent", "CellDecimalStart",
                            "CellDecimalStartWithPointRead",
                            "CellDecimalCurrentWithPointRead"}
            -> "CellDecimalEnd"
      [] OTHER -> IF c = CR THEN "CellSep" ELSE "NewLine"

\* lines 483-497: the arm of b'"'
CsvParser_handle_quote(initial_state) ==
    CASE initial_state \in {"CellQuoteStart", "CellQuoteCurrent"}
            -> "CellQuoteEnd"
      [] initial_state \in {"CellQuoteDecimalStart", "CellQuoteDecimalCurrent"}
            -> "CellQuoteDecimalEnd"
      [] initial_state \in {"CellQuoteDecimalStartWithPointRead",
                            "CellQuoteDecimalCurrentWithPointRead"}
            -> "CellQuoteDecimalEndWithPointRead"
      [] OTHER -> "CellQuoteStart"

\* lines 477-512
CsvParser_get_scan_state_from_data(initial_state, c) ==
    CASE c = Quote -> CsvParser_handle_quote(initial_state)
      [] c = Point -> CsvParser_handle_decimal_state(initial_state)
      [] IsDigit(c) -> CsvParser_handle_number(initial_state)
      [] c = Comma -> CsvParser_handle_separator(initial_state)
      [] c \in {CR, LF} -> CsvParser_handle_lf(initial_state, c)
      [] OTHER -> CsvParser_handle_default(initial_state)

(***************************************************************************)
(* parser.rs: cells and convert_from_slice                                 *)
(* A cell is [tag, v]: v is the text of a String, <<n>> for Number(n),     *)
(* <<m, k>> for the Decimal m / 10^k (k least), <<>> for Null.             *)
(***************************************************************************)
CellNull == [tag |-> "Null", v |-> <<>>]

\* the value a failed parse::<..>() gives: unwrap() panics on it
ParseErr == -1

\* the digits of slice as a number, most significant first
RECURSIVE DigitsValue(_, _)
DigitsValue(slice, acc) ==
    IF slice = <<>> THEN acc
    ELSE DigitsValue(Tail(slice), acc * 10 + (Head(slice) - Digit0))

\* str::parse::<i64> on text without a sign: digits only, at least one.
\* The texts of the model have fewer than 10 digits, far from i64's range.
ParseI64(slice) ==
    IF slice = <<>> \/ \E i \in 1..Len(slice) : ~IsDigit(slice[i])
    THEN ParseErr
    ELSE DigitsValue(slice, 0)

\* m / 10^k with the trailing zeros of the fraction dropped
RECURSIVE NormDecimal(_, _)
NormDecimal(m, k) ==
    IF k > 0 /\ m % 10 = 0 THEN NormDecimal(m \div 10, k - 1) ELSE <<m, k>>

NotPoint(c) == c # Point

\* str::parse::<f64> on text of digits and points: at most one point and at
\* least one digit, else an error
ParseF64(slice) ==
    LET points == {i \in 1..Len(slice) : slice[i] = Point}
        digits == SelectSeq(slice, NotPoint)
    IN IF \/ Cardinality(points) > 1
          \/ digits = <<>>
          \/ \E i \in 1..Len(digits) : ~IsDigit(digits[i])
       THEN <<ParseErr>>
       ELSE NormDecimal(DigitsValue(digits, 0),
                        IF points = {} THEN 0 ELSE Len(slice) - Min(points))

\* lines 515-530; [panic |-> TRUE] is the unwrap() of a failed parse
convert_from_slice(slice, state) ==
    CASE state \in {"CellNumberEnd", "CellQuoteNumberEnd"} ->
            IF ParseI64(slice) = ParseErr
            THEN [panic |-> TRUE, cell |-> CellNull]
            ELSE [panic |-> FALSE,
                  cell |-> [tag |-> "Number", v |-> <<ParseI64(slice)>>]]
      [] state \in {"CellDecimalEnd", "CellDecimalEndWithPointRead",
                    "CellQuoteDecimalEnd", "CellQuoteDecimalEndWithPointRead"} ->
            IF ParseF64(slice) = <<ParseErr>>
            THEN [panic |-> TRUE, cell |-> CellNull]
            ELSE [panic |-> FALSE,
                  cell |-> [tag |-> "Decimal", v |-> ParseF64(slice)]]
      [] OTHER -> [panic |-> FALSE, cell |-> [tag |-> "String", v |-> slice]]

(***************************************************************************)
(* parser.rs: the header scanner                                           *)
(***************************************************************************)
\* lines 134-141: -1 stands for None
get_curr_byte(buf, offset) ==
    IF offset >= Len(buf) THEN -1 ELSE At(buf, offset)

\* lines 150-155: the offset after the run of b' ' | b'\n' | 9..=13
RECURSIVE skip_whitespace(_, _)
skip_whitespace(buf, offset) ==
    IF get_curr_byte(buf, offset) \in {32, LF} \cup (9..13)
    THEN skip_whitespace(buf, offset + 1)
    ELSE offset

\* lines 185-193
scan_start(buf, offset) ==
    CASE get_curr_byte(buf, offset) = Quote -> "HeaderQuoteStart"
      [] get_curr_byte(buf, offset) = Comma -> "HeaderSep"
      [] get_curr_byte(buf, offset) \in {LF, -1} -> "NewLine"
      [] OTHER -> "HeaderString"

\* the first offset at or after `from` holding a byte of `stops`; -1 if none
FirstOf(buf, from, stops) ==
    LET hits == {i \in from..(Len(buf) - 1) : At(buf, i) \in stops}
    IN IF hits = {} THEN -1 ELSE Min(hits)

\* lines 195-216: the loop moves on past the end of the buffer when no
\* closing quote follows, and never ends (hang)
scan_header_quote(buf, offset) ==
    LET starting_point == offset + 1
        stop == FirstOf(buf, starting_point, {Quote})
    IN IF stop = -1
       THEN [hang |-> TRUE, state |-> "HeaderQuoteStart", offset |-> offset,
             name |-> <<>>]
       ELSE [hang |-> FALSE, state |-> "HeaderQuoteEnd", offset |-> stop,
             name |-> Slice(buf, starting_point, stop)]

\* lines 218-243: likewise when no separator or line break follows
scan_header_string(buf, offset) ==
    LET starting_point == offset
        stop == FirstOf(buf, offset + 1, {Comma, CR, LF})
    IN IF stop = -1
       THEN [hang |-> TRUE, state |-> "HeaderString", offset |-> offset,
             name |-> <<>>]
       ELSE [hang |-> FALSE,
             state |-> IF At(buf, stop) = Comma THEN "HeaderSep" ELSE "NewLine",
             offset |-> stop,
             name |-> Slice(buf, starting_point, stop)]

\* lines 251-285: the loop of scan_header
RECURSIVE HeaderLoop(_, _, _, _)
HeaderLoop(buf, state, offset, header_scanned) ==
    CASE state = "HeaderQuoteStart" ->
            LET r == scan_header_quote(buf, offset)
            IN IF r.hang
               THEN [hang |-> TRUE, header |-> header_scanned, offset |-> offset]
               ELSE HeaderLoop(buf, r.state, r.offset,
                               Append(header_scanned, r.name))
      [] state = "HeaderString" ->
            LET r == scan_header_string(buf, offset)
            IN IF r.hang
               THEN [hang |-> TRUE, header |-> header_scanned, offset |-> offset]
               ELSE HeaderLoop(buf, r.state, r.offset,
                               Append(header_scanned, r.name))
      [] state = "NewLine" ->
            [hang |-> FALSE, header |-> header_scanned, offset |-> offset]
      [] state \in {"HeaderQuoteEnd", "HeaderSep"} ->
            HeaderLoop(buf, scan_start(buf, offset + 1), offset + 1,
                       header_scanned)
      [] OTHER ->
            HeaderLoop(buf, scan_start(buf, offset), offset, header_scanned)

\* lines 246-288: (header_scanned, offset), or the hang of an unended name
scan_header(buf) ==
    HeaderLoop(buf, "Start", skip_whitespace(buf, 0), <<>>)

(***************************************************************************)
(* parser.rs: parse_content and parse_content_on_buffer                    *)
(* A scan is [state, start, start_used, out, panic]: out holds the cells   *)
(* emitted so far, in order (arr_index = Len(out)).                        *)
(***************************************************************************)
\* the value pushed at a boundary state: the converted slice buf[start..end]
\* (a panic when start > end or the conversion fails), Null when the start
\* is used up; the cell is kept unless the state is NewLine
Emit(buf, sc, state, end) ==
    LET bad == ~sc.start_used /\ sc.start > end
        conv == IF sc.start_used \/ bad
                THEN [panic |-> bad, cell |-> CellNull]
                ELSE convert_from_slice(Slice(buf, sc.start, end), state)
    IN IF conv.panic
       THEN [sc EXCEPT !.state = state, !.panic = TRUE]
       ELSE IF state # "NewLine"
       THEN [sc EXCEPT !.state = state, !.start_used = TRUE,
                       !.out = Append(sc.out, conv.cell)]
       ELSE [sc EXCEPT !.state = state]

\* lines 602-686: the body of parse_content for the byte at `index`
parse_content_byte(buf, sc, index) ==
    LET state == CsvParser_get_scan_state_from_data(sc.state, At(buf, index))
    IN CASE state \in {"Start", "CellString", "CellDecimalStartWithPointRead",
                       "CellNumberStart"} ->
                [sc EXCEPT !.state = state, !.start = index,
                           !.start_used = FALSE]
         [] state \in {"CellQuoteStart", "CellQuoteNumberStart",
                       "CellQuoteDecimalStart",
                       "CellQuoteDecimalCurrentWithPointRead"} ->
                [sc EXCEPT !.state = state, !.start = index + 1,
                           !.start_used = FALSE]
         [] state \in {"CellNumberEnd", "CellDecimalEnd",
                       "CellDecimalEndWithPointRead", "CellSep", "NewLine"} ->
                Emit(buf, sc, state, index)
         [] state \in {"CellQuoteEnd", "CellQuoteNumberEnd",
                       "CellQuoteDecimalEnd",
                       "CellQuoteDecimalEndWithPointRead"} ->
                Emit(buf, sc, state, index - 1)
         [] OTHER -> [sc EXCEPT !.state = state]

\* lines 709-802: the body of parse_content_on_buffer for the byte at `index`
parse_content_on_buffer_byte(buf, sc, index) ==
    LET state == CsvParser_get_scan_state_from_data(sc.state, At(buf, index))
    IN CASE state \in {"Start", "CellString", "CellDecimalStartWithPointRead",
                       "CellNumberStart"} ->
                [sc EXCEPT !.state = state, !.start = index,
                           !.start_used = FALSE]
         [] state \in {"CellQuoteStart", "CellQuoteNumberStart",
                       "CellQuoteDecimalStart",
                       "CellQuoteDecimalStartWithPointRead"} ->
                [sc EXCEPT !.state = state, !.start = index + 1,
                           !.start_used = FALSE]
         [] state \in {"CellNumberEnd", "CellDecimalEnd", "CellSep",
                       "NewLine"} ->
                Emit(buf, sc, state, index)
         [] state \in {"CellQuoteEnd", "CellQuoteNumberEnd",
                       "CellQuoteDecimalEnd",
                       "CellQuoteDecimalEndWithPointRead"} ->
                Emit(buf, sc, state, index)
         [] OTHER -> [sc EXCEPT !.state = state]

\* the bytes at index, index + 1, .. of buf, scanned by parse_content
RECURSIVE ScanContent(_, _, _)
ScanContent(buf, sc, index) ==
    IF index >= Len(buf) \/ sc.panic THEN sc
    ELSE ScanContent(buf, parse_content_byte(buf, sc, index), index + 1)

\* the same by parse_content_on_buffer
RECURSIVE ScanOnBuffer(_, _, _)
ScanOnBuffer(buf, sc, index) ==
    IF index >= Len(buf) \/ sc.panic THEN sc
    ELSE ScanOnBuffer(buf, parse_content_on_buffer_byte(buf, sc, index),
                      index + 1)

\* lines 583-588: the indexes left by skip(from) and
\* skip_while(CR or LF): those from the first byte at or after `from` that
\* is neither CR nor LF
SkipLineBreaks(buf, from) ==
    {i \in from..(Len(buf) - 1) :
        \E j \in from..i : At(buf, j) \notin {CR, LF}}

\* lines 579-690: x.next().unwrap() panics when only CR and LF follow the
\* header's line break
parse_content(buf, offset_from_scanner) ==
    LET next == SkipLineBreaks(buf, offset_from_scanner + 1)
    IN IF next = {} THEN [ScanInit EXCEPT !.panic = TRUE]
       ELSE ScanContent(buf, ScanInit, Min(next))

\* lines 694-818: the cells a worker emits from its byte range
parse_content_on_buffer(buf) == ScanOnBuffer(buf, ScanInit, 0)

\* lines 978-1005: CsvParser::parse on the bytes of the file
parse(file) ==
    LET sliced == trim_ascii(file)
        h == scan_header(sliced)
    IN IF skip_whitespace(sliced, 0) # 0
       THEN \* p.skip_whitespace() moved: assert_eq!(self.offset, 0) fails
            [outcome |-> "panic", column_data |-> <<>>, header |-> <<>>]
       ELSE IF h.hang
       THEN [outcome |-> "hang", column_data |-> <<>>, header |-> <<>>]
       ELSE LET sc == parse_content(sliced, h.offset)
            IN IF sc.panic
               THEN [outcome |-> "panic", column_data |-> <<>>, header |-> <<>>]
               ELSE [outcome |-> "returned", column_data |-> sc.out,
                     header |-> h.header]

(***************************************************************************)
(* SpecPartition: get_total_lines_in_a_file on buffers of lines            *)
(***************************************************************************)
MaxLines == 3
MaxLineLen == 6
MaxThreads == 4

RECURSIVE Repeat(_, _)
Repeat(b, k) == IF k = 0 THEN <<>> ELSE <<b>> \o Repeat(b, k - 1)

\* the buffer whose lines have the lengths lens, LF between them; the bytes
\* of a line are 'a' (97)
RECURSIVE LinesBuffer(_)
LinesBuffer(lens) ==
    IF Len(lens) = 0 THEN <<>>
    ELSE IF Len(lens) = 1 THEN Repeat(97, lens[1])
    ELSE Repeat(97, lens[1]) \o <<LF>> \o LinesBuffer(Tail(lens))

\* the caller hands over a slice that went through trim_ascii
InitPartition ==
    /\ \E k \in 0..MaxLines : \E lens \in [1..k -> 0..MaxLineLen] :
           /\ mmaped_buffer = LinesBuffer(lens)
           /\ trim_ascii(LinesBuffer(lens)) = LinesBuffer(lens)
    /\ thread_number \in 1..MaxThreads
    /\ ppc = "ranges"
    /\ slices = <<>> /\ ptask = NoTask /\ length = <<>>
    /\ InferIdle /\ FoldIdle /\ PipeIdle /\ ScanIdle
    /\ HdrIdle /\ FrameIdle /\ WriteIdle

\* lines 841-877: the ranges, or the panic of an inverted slice
PartitionRanges ==
    /\ ppc = "ranges"
    /\ LET r == ShardRanges(mmaped_buffer, thread_number)
       IN IF r.panic
          THEN ppc' = "panic" /\ slices' = slices
          ELSE ppc' = "count" /\ slices' = r.slices
    /\ UNCHANGED <<mmaped_buffer, thread_number, ptask, length, inferVars, foldVars, pipeVars, scanVars,
                   hdrVars, frameVars, writeVars>>

\* lines 879-890: the iterator chain is lazy, so the task of a range is
\* spawned when collect() asks for the next element, after the join of the
\* previous one
SpawnCount ==
    /\ ppc = "count"
    /\ ptask.st = "none"
    /\ Len(length) < Len(slices)
    /\ ptask' = [st |-> "running", idx |-> Len(length) + 1, count |-> 0]
    /\ UNCHANGED <<mmaped_buffer, thread_number, ppc, slices, length, inferVars, foldVars, pipeVars, scanVars,
                   hdrVars, frameVars, writeVars>>

\* the spawned closure: slice.split(|c| *c == b'\n').count()
CountRun ==
    /\ ptask.st = "running"
    /\ ptask' = [ptask EXCEPT !.st = "finished",
                   !.count = SplitCount(mmaped_buffer, slices[ptask.idx][1],
                                        slices[ptask.idx][2])]
    /\ UNCHANGED <<mmaped_buffer, thread_number, ppc, slices, length, inferVars, foldVars, pipeVars, scanVars,
                   hdrVars, frameVars, writeVars>>

\* c.join().unwrap(), and the element collected
JoinCount ==
    /\ ptask.st = "finished"
    /\ length' = Append(length, <<ptask.count, slices[ptask.idx][1],
                                  slices[ptask.idx][2]>>)
    /\ ptask' = NoTask
    /\ ppc' = IF Len(length') = Len(slices) THEN "counted" ELSE ppc
    /\ UNCHANGED <<mmaped_buffer, thread_number, slices, inferVars, foldVars, pipeVars, scanVars,
                   hdrVars, frameVars, writeVars>>

NextPartition == PartitionRanges \/ SpawnCount \/ CountRun \/ JoinCount

SpecPartition == InitPartition /\ [][NextPartition]_vars

RECURSIVE SumCounts(_)
SumCounts(descs) ==
    IF descs = <<>> THEN 0 ELSE Head(descs)[1] + SumCounts(Tail(descs))

\* the lines of a buffer, counted without the partitioner
TrueLineCount(buf) ==
    Cardinality({i \in 0..(Len(buf) - 1) : At(buf, i) = LF}) + 1

\* C9: the (byte_start, byte_end) ranges returned are in order, contiguous
\* (each starts where the previous one ends) and cover the buffer: the first
\* starts at 0 and the last ends at the buffer length.
C9_RangesCoverBuffer ==
    ppc = "counted" =>
        /\ length[1][2] = 0
        /\ length[Len(length)][3] = Len(mmaped_buffer)
        /\ \A i \in 1..Len(length) : length[i][2] <= length[i][3]
        /\ \A i \in 1..(Len(length) - 1) : length[i + 1][2] = length[i][3]

\* C10: the sum of the per-shard row counts, minus one, is the number of
\* lines of the (trimmed) buffer: its LF bytes plus one.
C10_RowCountIsLineCount ==
    (ppc = "counted" /\ trim_ascii(mmaped_buffer) = mmaped_buffer) =>
        SumCounts(length) - 1 = TrueLineCount(mmaped_buffer)

(***************************************************************************)
(* parser.rs: CsvParser::split_slices and parse_multi_threaded             *)
(***************************************************************************)
\* mutant: curr_start is not moved on, every view starts at the same cell
RECURSIVE split_slices_NoAdvance(_, _, _)
split_slices_NoAdvance(slice_info, multiplier, curr_start) ==
    IF slice_info = <<>> THEN <<>>
    ELSE <<[off |-> curr_start, len |-> Head(slice_info)[1] * multiplier]>>
         \o split_slices_NoAdvance(Tail(slice_info), multiplier, curr_start)

\* lines 539-575: one view per descriptor, view i starting where view i - 1
\* ends and c * multiplier long; nothing compares them with the slice
RECURSIVE split_slices(_, _, _)
split_slices(slice_info, multiplier, curr_start) ==
    IF slice_info = <<>> THEN <<>>
    ELSE <<[off |-> curr_start, len |-> Head(slice_info)[1] * multiplier]>>
         \o split_slices(Tail(slice_info), multiplier,
                         curr_start + Head(slice_info)[1] * multiplier)

\* Vector::zeroed(n): n cells of zero bytes, read as Cell::Null
zeroed(n) == [i \in 1..n |-> CellNull]

\* lines 916-925: the bytes after the header's line, trimmed
DataSlice(buf, offset_from_scanner) ==
    LET next_pos == offset_from_scanner
                    + (IF PositionLF(buf, offset_from_scanner) = -1 THEN 0
                       ELSE PositionLF(buf, offset_from_scanner) + 1)
    IN trim_ascii(Slice(buf, next_pos, Len(buf)))

\* lines 756-762, 788-793: the cells emitted go to the view in order; those
\* at an index of the view are stored, the others dropped
WriteView(res, view, out) ==
    [g \in 1..Len(res) |->
        IF g - 1 >= view.off /\ g - 1 - view.off < view.len
                             /\ g - 1 - view.off < Len(out)
        THEN out[g - view.off] ELSE res[g]]

\* a cell stored at an index of the view that lies past the end of res
WritesPastEnd(res, view, out) ==
    \E j \in 0..(Len(out) - 1) : j < view.len /\ view.off + j >= Len(res)

\* the array after the workers of shards i, i + 1, .. have run; their views
\* are disjoint, so the order of the workers does not show
RECURSIVE RunWorkers(_, _, _, _, _)
RunWorkers(buf, descs, views, res, i) ==
    IF i > Len(descs) THEN [column_data |-> res, panic |-> FALSE, oob |-> FALSE]
    ELSE LET sc == parse_content_on_buffer(Slice(buf, descs[i][2], descs[i][3]))
             rest == RunWorkers(buf, descs, views,
                                WriteView(res, views[i], sc.out), i + 1)
         IN [column_data |-> rest.column_data,
             panic |-> (sc.panic \/ rest.panic),
             oob |-> (WritesPastEnd(res, views[i], sc.out) \/ rest.oob)]

\* lines 897-972: CsvParser::parse_multi_threaded on the bytes of the file
parse_multi_threaded(file, n) ==
    LET h == scan_header(file)
        buf == DataSlice(file, h.offset)
        descs == get_total_lines_in_a_file(buf, n)
        cols == Len(h.header)
        run == RunWorkers(buf, descs, split_slices(descs, cols, 0),
                          zeroed((SumCounts(descs) - 1) * cols), 1)
    IN IF h.hang
       THEN [outcome |-> "hang", column_data |-> <<>>, header |-> <<>>,
             oob |-> FALSE]
       ELSE IF ShardRanges(buf, n).panic \/ run.panic
       THEN [outcome |-> "panic", column_data |-> <<>>, header |-> <<>>,
             oob |-> FALSE]
       ELSE [outcome |-> "returned", column_data |-> run.column_data,
             header |-> h.header, oob |-> run.oob]

(***************************************************************************)
(* Spec: parse(path), then parse_multi_threaded(path, total_threads), on   *)
(* one file of rows with two columns                                       *)
(***************************************************************************)
MaxRows == 3
MaxWorkers == 3

\* "x,y"
HeaderLine == <<120, 44, 121>>

\* the rows: 1,a   2.5,7   b,3   "c",4   ,5   .,6
RowTexts ==
    {<<49, 44, 97>>, <<50, 46, 53, 44, 55>>, <<98, 44, 51>>,
     <<34, 99, 34, 44, 52>>, <<44, 53>>, <<46, 44, 54>>}

RECURSIVE JoinRows(_, _)
JoinRows(rows, eol) ==
    IF Len(rows) = 1 THEN rows[1]
    ELSE rows[1] \o eol \o JoinRows(Tail(rows), eol)

\* the file: the header line, the rows (there may be none), the line ends
\* LF or CR LF, with or without one after the last line
FileOf(rows, eol, trailing) ==
    HeaderLine \o (IF rows = <<>> THEN <<>> ELSE eol \o JoinRows(rows, eol))
               \o (IF trailing THEN eol ELSE <<>>)

Init ==
    /\ \E k \in 0..MaxRows : \E rows \in [1..k -> RowTexts] :
       \E eol \in {<<LF>>, <<CR, LF>>} : \E trailing \in BOOLEAN :
           mmaped = FileOf(rows, eol, trailing)
    /\ total_threads \in 1..MaxWorkers
    /\ single = NotCalled
    /\ mpc = "start" /\ scanned_header = <<>> /\ result = <<>>
    /\ sliced_buffer = <<>> /\ workers = <<>> /\ oob = FALSE
    /\ InferIdle /\ FoldIdle /\ PartIdle /\ ScanIdle
    /\ HdrIdle /\ FrameIdle /\ WriteIdle

\* lines 978-1005: the call parse(path)
Parse ==
    /\ single.outcome = "none"
    /\ single' = parse(mmaped)
    /\ UNCHANGED <<mmaped, total_threads, mpc, scanned_header, result,
                   sliced_buffer, workers, oob, inferVars, foldVars, partVars, scanVars,
                   hdrVars, frameVars, writeVars>>

\* lines 914-925: the header and the slice handed to the partitioner
ScanHeader ==
    /\ single.outcome # "none"
    /\ mpc = "start"
    /\ LET h == scan_header(mmaped)
       IN IF h.hang
          THEN /\ mpc' = "hang"
               /\ UNCHANGED <<scanned_header, partVars>>
          ELSE /\ mpc' = "counting"
               /\ scanned_header' = h.header
               /\ mmaped_buffer' = DataSlice(mmaped, h.offset)
               /\ thread_number' = total_threads
               /\ ppc' = "ranges"
               /\ UNCHANGED <<slices, ptask, length>>
    /\ UNCHANGED <<mmaped, total_threads, single, result, sliced_buffer,
                   workers, oob, inferVars, foldVars, scanVars,
                   hdrVars, frameVars, writeVars>>

\* mutant: the array is allocated and split as soon as one counting task has
\* been joined, without waiting for the others
AllocSplit_BeforeJoin ==
    /\ mpc = "counting" /\ ppc \in {"count", "counted"} /\ Len(length) >= 1
    /\ LET c == SumCounts(length) - 1
       IN /\ result' = zeroed(c * Len(scanned_header))
          /\ sliced_buffer' = split_slices(length, Len(scanned_header), 0)
    /\ workers' = [i \in 1..Len(length) |-> "idle"]
    /\ mpc' = "spawning"
    /\ UNCHANGED <<mmaped, total_threads, single, scanned_header, oob,
                   inferVars, foldVars, partVars, scanVars,
                   hdrVars, frameVars, writeVars>>

\* lines 934-950: the row count, the zeroed array and its views
AllocSplit ==
    /\ mpc = "counting" /\ ppc = "counted"
    /\ LET c == SumCounts(length) - 1
       IN /\ result' = zeroed(c * Len(scanned_header))
          /\ sliced_buffer' = split_slices(length, Len(scanned_header), 0)
    /\ workers' = [i \in 1..Len(length) |-> "idle"]
    /\ mpc' = "spawning"
    /\ UNCHANGED <<mmaped, total_threads, single, scanned_header, oob,
                   inferVars, foldVars, partVars, scanVars,
                   hdrVars, frameVars, writeVars>>

\* lines 957-968: for_each spawns the worker of each view, in shard order
SpawnWorker ==
    /\ mpc = "spawning"
    /\ LET i == Min({j \in DOMAIN workers : workers[j] = "idle"})
       IN /\ workers' = [workers EXCEPT ![i] = "spawned"]
          /\ mpc' = IF i = Len(workers) THEN "joining" ELSE mpc
    /\ UNCHANGED <<mmaped, total_threads, single, scanned_header, result,
                   sliced_buffer, oob, inferVars, foldVars, partVars, scanVars,
                   hdrVars, frameVars, writeVars>>

\* lines 963-966: the worker of shard i tokenizes its byte range and stores
\* the cells in its view
WorkerRun(i) ==
    /\ i \in DOMAIN workers
    /\ workers[i] = "spawned"
    /\ LET sc == parse_content_on_buffer(
                     Slice(mmaped_buffer, length[i][2], length[i][3]))
       IN /\ result' = WriteView(result, sliced_buffer[i], sc.out)
          /\ oob' = (oob \/ WritesPastEnd(result, sliced_buffer[i], sc.out))
          /\ workers' = [workers EXCEPT
                            ![i] = IF sc.panic THEN "panic" ELSE "done"]
    /\ UNCHANGED <<mmaped, total_threads, single, mpc, scanned_header,
                   sliced_buffer, inferVars, foldVars, partVars, scanVars,
                   hdrVars, frameVars, writeVars>>

\* mutant: the scope gives the array to DataFrame::new whatever the workers did
ScopeEnd_IgnoresPanic ==
    /\ mpc = "joining"
    /\ \A i \in DOMAIN workers : workers[i] \in {"done", "panic"}
    /\ mpc' = "returned"
    /\ UNCHANGED <<mmaped, total_threads, single, scanned_header, result,
                   sliced_buffer, workers, oob, inferVars, foldVars, partVars,
                   scanVars,
                   hdrVars, frameVars, writeVars>>

\* mutant: the scope does not wait for its workers
ScopeEnd_NoJoin ==
    /\ mpc = "joining"
    /\ IF \E i \in DOMAIN workers : workers[i] = "panic"
       THEN IF oob THEN mpc' \in {"panic", "crashed"} ELSE mpc' = "panic"
       ELSE IF oob THEN mpc' \in {"returned", "crashed"}
       ELSE mpc' = "returned"
    /\ UNCHANGED <<mmaped, total_threads, single, scanned_header, result,
                   sliced_buffer, workers, oob, inferVars, foldVars, partVars,
                   scanVars, hdrVars, frameVars, writeVars>>

\* lines 952-971: the scope ends when every worker has ended; a worker's
\* panic is raised again, else DataFrame::new gets the array. After a write
\* past the end of the array the call may return or crash.
ScopeEnd ==
    /\ mpc = "joining"
    /\ \A i \in DOMAIN workers : workers[i] \in {"done", "panic"}
    /\ IF \E i \in DOMAIN workers : workers[i] = "panic"
       THEN IF oob THEN mpc' \in {"panic", "crashed"} ELSE mpc' = "panic"
       ELSE IF oob THEN mpc' \in {"returned", "crashed"}
       ELSE mpc' = "returned"
    /\ UNCHANGED <<mmaped, total_threads, single, scanned_header, result,
                   sliced_buffer, workers, oob, inferVars, foldVars, partVars, scanVars,
                   hdrVars, frameVars, writeVars>>

\* the partitioner runs inside parse_multi_threaded
Partition ==
    /\ mpc = "counting"
    /\ NextPartition

Next ==
    \/ Parse
    \/ ScanHeader
    \/ Partition
    \/ AllocSplit
    \/ SpawnWorker
    \/ \E i \in 1..(MaxWorkers + 1) : WorkerRun(i)
    \/ ScopeEnd

Spec == Init /\ [][Next]_vars

\* the steps of parse_multi_threaded end as the function says
StepsAgreeWithFunction ==
    /\ mpc = "returned" =>
           /\ parse_multi_threaded(mmaped, total_threads).outcome = "returned"
           /\ parse_multi_threaded(mmaped, total_threads).column_data = result
           /\ parse_multi_threaded(mmaped, total_threads).oob = oob
    /\ (mpc = "panic" \/ ppc = "panic") =>
           parse_multi_threaded(mmaped, total_threads).outcome = "panic"

\* C1: for a valid file and 1 <= n <= row_count, parse_multi_threaded(path, n)
\* gives the flat cell array of parse(path): the same cells at the same
\* indices.
C1_MultiEqualsSingle ==
    (mpc = "returned" /\ total_threads <= TrueLineCount(mmaped_buffer)) =>
        (single.outcome = "returned" /\ result = single.column_data)

(***************************************************************************)
(* parse_state.rs: the ParseState with CarriageRet and the payload state   *)
(* SkippedAssumeEndWhitespace(PrevState), and its transition function.     *)
(* A state is [n, v]: n the variant, v the PrevState carried ("-" if none) *)
(***************************************************************************)
PS(n) == [n |-> n, v |-> "-"]

SkippedAssumeEndWhitespace(v) == [n |-> "SkippedAssumeEndWhitespace", v |-> v]

\* lines 159-201
PrevState_get_end_of_parse_state(initial_state) ==
    CASE initial_state \in {"CellString", "CellCurrent"} -> PS("CellSep")
      [] initial_state \in {"CellDecimalStart", "CellDecimalCurrent",
                            "CellDecimalEnd"} -> PS("CellDecimalEnd")
      [] initial_state \in {"CellDecimalCurrentWithPointRead",
                            "CellDecimalEndWithPointRead",
                            "CellDecimalStartWithPointRead"}
            -> PS("CellDecimalEndWithPointRead")
      [] initial_state \in {"CellNumberStart", "CellNumberCurrent",
                            "CellNumberEnd"} -> PS("CellNumberEnd")
      [] initial_state \in {"CellQuoteStart", "CellQuoteCurrent",
                            "CellQuoteEnd"} -> PS("CellQuoteEnd")
      [] initial_state \in {"CellQuoteDecimalStart", "CellQuoteDecimalCurrent",
                            "CellQuoteDecimalEnd"} -> PS("CellQuoteDecimalEnd")
      [] initial_state \in {"CellQuoteDecimalStartWithPointRead",
                            "CellQuoteDecimalCurrentWithPointRead",
                            "CellQuoteDecimalEndWithPointRead"}
            -> PS("CellQuoteDecimalEndWithPointRead")
      [] initial_state \in {"CellQuoteNumberStart", "CellQuoteNumberCurrent",
                            "CellQuoteNumberEnd"} -> PS("CellQuoteNumberEnd")
      [] OTHER -> PS(initial_state)

\* lines 208-242
ParseState_handle_decimal_state(initial_state) ==
    CASE initial_state.n \in {"CellNumberCurrent", "CellNumberStart"}
            -> PS("CellDecimalCurrentWithPointRead")
      [] initial_state.n = "CellQuoteStart"
            -> PS("CellQuoteDecimalStartWithPointRead")
      [] initial_state.n = "CellQuoteCurrent" -> PS("CellQuoteCurrent")
      [] initial_state.n \in {"CellQuoteNumberStart", "CellQuoteNumberCurrent"}
            -> PS("CellQuoteDecimalCurrentWithPointRead")
      [] initial_state.n \in {"CellQuoteDecimalStartWithPointRead",
                              "CellQuoteDecimalCurrentWithPointRead"}
            -> PS("CellQuoteCurrent")
      [] initial_state.n \in {"CellString", "CellDecimalStartWithPointRead",
                              "CellDecimalCurrentWithPointRead", "CellCurrent"}
            -> PS("CellCurrent")
      [] initial_state.n = "SkippedAssumeEndWhitespace" -> PS("CellCurrent")
      [] OTHER -> PS("CellDecimalStartWithPointRead")

\* lines 247-271
ParseState_handle_default(initial_state) ==
    CASE initial_state.n \in {"CellQuoteStart", "CellQuoteCurrent"}
            -> PS("CellQuoteCurrent")
      [] initial_state.n \in {"CellString", "CellCurrent", "CellNumberStart",
                              "CellDecimalStart", "CellNumberCurrent",
                              "CellDecimalCurrent",
                              "CellDecimalStartWithPointRead",
                              "CellDecimalCurrentWithPointRead",
                              "CellQuoteDecimalStartWithPointRead",
                              "CellQuoteDecimalCurrentWithPointRead"}
            -> PS("CellCurrent")
      [] initial_state.n = "SkippedAssumeEndWhitespace" -> PS("CellCurrent")
      [] OTHER -> PS("CellString")

\* lines 276-304
ParseState_handle_separator(initial_state) ==
    CASE initial_state.n \in {"CellQuoteCurrent", "CellQuoteStart",
                              "CellQuoteDecimalCurrent", "CellQuoteDecimalStart",
                              "CellQuoteDecimalStartWithPointRead",
                              "CellQuoteDecimalCurrentWithPointRead"}
            -> PS("CellQuoteCurrent")
      [] initial_state.n \in {"CellNumberCurrent", "CellNumberStart"}
            -> PS("CellNumberEnd")
      [] initial_state.n \in {"CellDecimalCurrent", "CellDecimalStart",
                              "CellDecimalStartWithPointRead",
                              "CellDecimalCurrentWithPointRead"}
            -> PS("CellDecimalEnd")
      [] initial_state.n = "SkippedAssumeEndWhitespace"
            -> PrevState_get_end_of_parse_state(initial_state.v)
      [] OTHER -> PS("CellSep")

\* lines 307-339
ParseState_handle_number(initial_state) ==
    CASE initial_state.n \in {"CellQuoteDecimalStartWithPointRead",
                              "CellQuoteDecimalCurrentWithPointRead"}
            -> PS("CellQuoteDecimalCurrentWithPointRead")
      [] initial_state.n \in {"CellQuoteStart", "CellQuoteNumberStart",
                              "CellQuoteNumberCurrent"}
            -> PS("CellQuoteNumberCurrent")
      [] initial_state.n = "CellQuoteCurrent" -> PS("CellQuoteCurrent")
      [] initial_state.n \in {"CellNumberCurrent", "CellNumberStart"}
            -> PS("CellNumberCurrent")
      [] initial_state.n \in {"CellDecimalStartWithPointRead",
                              "CellDecimalCurrentWithPointRead"}
            -> PS("CellDecimalCurrentWithPointRead")
      [] initial_state.n \in {"CellDecimalCurrent", "CellDecimalStart"}
            -> PS("CellDecimalCurrent")
      [] initial_state.n \in {"CellString", "CellCurrent"} -> PS("CellCurrent")
      [] initial_state.n = "SkippedAssumeEndWhitespace" -> PS("CellCurrent")
      [] OTHER -> PS("CellNumberStart")

\* lines 352-380: c is not read
ParseState_handle_lf(initial_state, c) ==
    CASE initial_state.n \in {"CellQuoteCurrent", "CellQuoteStart",
                              "CellQuoteDecimalCurrent", "CellQuoteDecimalStart",
                              "CellQuoteDecimalStartWithPointRead",
                              "CellQuoteDecimalCurrentWithPointRead"}
            -> PS("CellQuoteCurrent")
      [] initial_state.n \in {"CellNumberCurrent", "CellNumberStart"}
            -> PS("CellNumberEnd")
      [] initial_state.n \in {"CellDecimalCurrent", "CellDecimalStart",
                              "CellDecimalStartWithPointRead",
                              "CellDecimalCurrentWithPointRead"}
            -> PS("CellDecimalEnd")
      [] initial_state.n = "SkippedAssumeEndWhitespace"
            -> PrevState_get_end_of_parse_state(initial_state.v)
      [] OTHER -> PS("NewLine")

\* lines 383-400
ParseState_handle_quotes(initial_state) ==
    CASE initial_state.n \in {"CellQuoteStart", "CellQuoteCurrent"}
            -> PS("CellQuoteEnd")
      [] initial_state.n \in {"CellQuoteDecimalStart", "CellQuoteDecimalCurrent"}
            -> PS("CellQuoteDecimalEnd")
      [] initial_state.n \in {"CellQuoteDecimalStartWithPointRead",
                              "CellQuoteDecimalCurrentWithPointRead"}
            -> PS("CellQuoteDecimalEndWithPointRead")
      [] initial_state.n = "SkippedAssumeEndWhitespace"
            -> PrevState_get_end_of_parse_state(initial_state.v)
      [] OTHER -> PS("CellQuoteStart")

\* lines 403-436
ParseState_handle_cr(initial_state) ==
    CASE initial_state.n \in {"CellQuoteCurrent", "CellQuoteStart",
                              "CellQuoteDecimalCurrent", "CellQuoteDecimalStart",
                              "CellQuoteDecimalStartWithPointRead",
                              "CellQuoteDecimalCurrentWithPointRead"}
            -> PS("CellQuoteCurrent")
      [] initial_state.n \in {"CellNumberCurrent", "CellNumberStart"}
            -> PS("CarriageRet")
      [] initial_state.n \in {"CellDecimalCurrent", "CellDecimalStart"}
            -> SkippedAssumeEndWhitespace("CellDecimalCurrent")
      [] initial_state.n \in {"CellDecimalStartWithPointRead",
                              "CellDecimalCurrentWithPointRead"}
            -> SkippedAssumeEndWhitespace("CellDecimalCurrentWithPointRead")
      [] initial_state.n = "SkippedAssumeEndWhitespace"
            -> SkippedAssumeEndWhitespace(initial_state.v)
      [] OTHER -> PS("CarriageRet")

\* mutant: a space after unquoted text suspends as well, remembering the
\* string state
ParseState_handle_white_space_SuspendsString(initial_state) ==
    CASE initial_state.n \in {"CellSep", "SkippedStartWhitespace"}
            -> PS("SkippedStartWhitespace")
      [] initial_state.n \in {"CellQuoteStart", "CellQuoteCurrent",
                              "CellQuoteNumberStart", "CellQuoteDecimalStart",
                              "CellQuoteNumberCurrent", "CellQuoteDecimalCurrent",
                              "CellQuoteDecimalStartWithPointRead",
                              "CellQuoteDecimalCurrentWithPointRead"}
            -> PS("CellQuoteCurrent")
      [] initial_state.n \in {"CellCurrent", "CellDecimalStartWithPointRead",
                              "CellDecimalCurrentWithPointRead"}
            -> SkippedAssumeEndWhitespace("CellCurrent")
      [] initial_state.n \in {"CellNumberStart", "CellNumberCurrent"}
            -> SkippedAssumeEndWhitespace("CellNumberCurrent")
      [] initial_state.n \in {"CellDecimalStart", "CellDecimalCurrent"}
            -> SkippedAssumeEndWhitespace("CellDecimalCurrent")
      [] initial_state.n = "SkippedAssumeEndWhitespace"
            -> SkippedAssumeEndWhitespace(initial_state.v)
      [] OTHER -> PS("SkippedStartWhitespace")

\* lines 439-483
ParseState_handle_white_space(initial_state) ==
    CASE initial_state.n \in {"CellSep", "SkippedStartWhitespace"}
            -> PS("SkippedStartWhitespace")
      [] initial_state.n \in {"CellQuoteStart", "CellQuoteCurrent",
                              "CellQuoteNumberStart", "CellQuoteDecimalStart",
                              "CellQuoteNumberCurrent", "CellQuoteDecimalCurrent",
                              "CellQuoteDecimalStartWithPointRead",
                              "CellQuoteDecimalCurrentWithPointRead"}
            -> PS("CellQuoteCurrent")
      [] initial_state.n \in {"CellCurrent", "CellDecimalStartWithPointRead",
                              "CellDecimalCurrentWithPointRead"}
            -> PS("CellCurrent")
      [] initial_state.n \in {"CellNumberStart", "CellNumberCurrent"}
            -> SkippedAssumeEndWhitespace("CellNumberCurrent")
      [] initial_state.n \in {"CellDecimalStart", "CellDecimalCurrent"}
            -> SkippedAssumeEndWhitespace("CellDecimalCurrent")
      [] initial_state.n = "SkippedAssumeEndWhitespace"
            -> SkippedAssumeEndWhitespace(initial_state.v)
      [] OTHER -> PS("SkippedStartWhitespace")

Space == 32

\* lines 492-512
ParseState_get_scan_state_from_data(initial_state, c) ==
    CASE c = Quote -> ParseState_handle_quotes(initial_state)
      [] c = Point -> ParseState_handle_decimal_state(initial_state)
      [] IsDigit(c) -> ParseState_handle_number(initial_state)
      [] c = Comma -> ParseState_handle_separator(initial_state)
      [] c = LF -> ParseState_handle_lf(initial_state, c)
      [] c = CR -> ParseState_handle_cr(initial_state)
      [] c = Space -> ParseState_handle_white_space(initial_state)
      [] OTHER -> ParseState_handle_default(initial_state)

(***************************************************************************)
(* SpecScan: one buffer of row bytes read byte by byte by the loop of      *)
(* parse_content, by the loop of parse_content_on_buffer (both on          *)
(* CsvParser's own tokenizer) and by the tokenizer of parse_state.rs       *)
(***************************************************************************)
MaxScanLen == 4

\* the bytes of the buffers: '"'  '.'  '1'  ','  LF  CR  ' '  'a'
ScanBytes == {Quote, Point, 49, Comma, LF, CR, Space, 97}

\* longer rows:  "a,b",2 LF    "12",    "3.5",    3.5.6,    3.5 CR LF
\*               42 CR LF    ' 42 ',    "a",,    3.5,,    1,"a" LF
SampleRows ==
    {<<34, 97, 44, 98, 34, 44, 50, 10>>,
     <<34, 49, 50, 34, 44>>,
     <<34, 51, 46, 53, 34, 44>>,
     <<51, 46, 53, 46, 54, 44>>,
     <<51, 46, 53, 13, 10>>,
     <<52, 50, 13, 10>>,
     <<32, 52, 50, 32, 44>>,
     <<34, 97, 34, 44, 44>>,
     <<51, 46, 53, 44, 44>>,
     <<49, 44, 34, 97, 34, 10>>}

MaxCellLen == 5

\* the bytes of a numeric-looking cell: '1'  '.'  ' '
NumericBytes == {49, Point, Space}

\* one cell of NumericBytes, unquoted or after an opening quote, and the
\* byte that ends it: a separator, a line feed or a quote
NumericCells ==
    UNION {{open \o text \o <<close>> :
               open \in {<<>>, <<Quote>>},
               text \in [1..k -> NumericBytes],
               close \in {Comma, LF, Quote}} : k \in 1..MaxCellLen}

InitScan ==
    /\ \/ \E k \in 0..MaxScanLen : byte_buffer \in [1..k -> ScanBytes]
       \/ byte_buffer \in SampleRows
       \/ byte_buffer \in NumericCells
    /\ byte_index = 0
    /\ turn = "start"
    /\ content = ScanInit /\ on_buffer = ScanInit
    /\ states = <<>> /\ ps_states = <<>>
    /\ InferIdle /\ FoldIdle /\ PartIdle /\ PipeIdle
    /\ HdrIdle /\ FrameIdle /\ WriteIdle

\* parser.rs lines 583-590: parse_content looks for the first byte of
\* byte_buffer (the bytes after the header's line break) that is neither CR
\* nor LF; x.next().unwrap() panics when there is none
ParseContentStart ==
    /\ turn = "start"
    /\ content' = IF SkipLineBreaks(byte_buffer, 0) = {}
                  THEN [content EXCEPT !.panic = TRUE] ELSE content
    /\ turn' = "parse_content"
    /\ UNCHANGED <<byte_buffer, byte_index, on_buffer, states, ps_states,
                   inferVars, foldVars, partVars, pipeVars,
                   hdrVars, frameVars, writeVars>>

\* parser.rs lines 583-686: parse_content reads the byte at byte_index unless
\* skip_while has dropped it (a CR or LF before the first cell byte); a
\* panic ends its loop
ParseContentByte ==
    /\ turn = "parse_content"
    /\ byte_index < Len(byte_buffer)
    /\ content' = IF content.panic
                     \/ byte_index \notin SkipLineBreaks(byte_buffer, 0)
                  THEN content
                  ELSE parse_content_byte(byte_buffer, content, byte_index)
    /\ turn' = "parse_content_on_buffer"
    /\ UNCHANGED <<byte_buffer, byte_index, on_buffer, states, ps_states,
                   inferVars, foldVars, partVars, pipeVars,
                   hdrVars, frameVars, writeVars>>

\* parser.rs lines 709-802: parse_content_on_buffer reads the same byte;
\* states records the state its tokenizer gives
ParseContentOnBufferByte ==
    /\ turn = "parse_content_on_buffer"
    /\ on_buffer' = IF on_buffer.panic THEN on_buffer
                    ELSE parse_content_on_buffer_byte(byte_buffer, on_buffer,
                                                      byte_index)
    /\ states' = Append(states,
                    CsvParser_get_scan_state_from_data(
                        IF states = <<>> THEN "Start" ELSE states[Len(states)],
                        At(byte_buffer, byte_index)))
    /\ turn' = "parse_state"
    /\ UNCHANGED <<byte_buffer, byte_index, content, ps_states,
                   inferVars, foldVars, partVars, pipeVars,
                   hdrVars, frameVars, writeVars>>

\* parse_state.rs lines 492-512: ParseState::get_scan_state_from_data on the
\* same byte, from ParseState::Start
ParseStateByte ==
    /\ turn = "parse_state"
    /\ ps_states' = Append(ps_states,
                       ParseState_get_scan_state_from_data(
                           IF ps_states = <<>> THEN PS("Start")
                           ELSE ps_states[Len(ps_states)],
                           At(byte_buffer, byte_index)))
    /\ byte_index' = byte_index + 1
    /\ turn' = "parse_content"
    /\ UNCHANGED <<byte_buffer, content, on_buffer, states,
                   inferVars, foldVars, partVars, pipeVars,
                   hdrVars, frameVars, writeVars>>

NextScan ==
    \/ ParseContentStart
    \/ ParseContentByte \/ ParseContentOnBufferByte \/ ParseStateByte

SpecScan == InitScan /\ [][NextScan]_vars

\* every byte of the buffer has been read by the three
Scanned == turn = "parse_content" /\ byte_index = Len(byte_buffer)

\* the steps of parse_content on byte_buffer end as the function does on a
\* file whose header line "x" LF is followed by byte_buffer
ContentStepsAgree ==
    Scanned =>
        LET run == parse_content(<<120, LF>> \o byte_buffer, 1)
        IN /\ content.panic = run.panic
           /\ content.state = run.state
           /\ content.out = run.out

\* the cell type convert_from_slice gives for a boundary state (parser.rs
\* lines 516-528)
Classify(state) ==
    CASE state \in {"CellNumberEnd", "CellQuoteNumberEnd"} -> "Number"
      [] state \in {"CellDecimalEnd", "CellDecimalEndWithPointRead",
                    "CellQuoteDecimalEnd", "CellQuoteDecimalEndWithPointRead"}
            -> "Decimal"
      [] OTHER -> "String"

\* the states at which the loops of parser.rs materialize a cell (lines
\* 629-633, 657-660)
BoundaryStates ==
    {"CellNumberEnd", "CellDecimalEnd", "CellDecimalEndWithPointRead",
     "CellSep", "NewLine", "CellQuoteEnd", "CellQuoteNumberEnd",
     "CellQuoteDecimalEnd", "CellQuoteDecimalEndWithPointRead"}

AllDigits(s) == s # <<>> /\ \A i \in 1..Len(s) : IsDigit(s[i])

StringCell(text) == [tag |-> "String", v |-> text]
NumberCell(text) == [tag |-> "Number", v |-> <<ParseI64(text)>>]
DecimalCell(text) == [tag |-> "Decimal", v |-> ParseF64(text)]

(***************************************************************************)
(* Claims on parse_multi_threaded as a whole (Spec)                        *)
(***************************************************************************)
\* C11: when a tokenizing worker faults (a slice classified as numeric that
\* does not parse), parse_multi_threaded does not return a DataFrame: the
\* call ends in the fault once the workers are joined.
C11_WorkerFaultPropagates ==
    (\E i \in DOMAIN workers : workers[i] = "panic") => mpc # "returned"

\* a worker faulted on the field "." after another worker stored its cells,
\* and the call ended in the fault
C11_Witness ==
    /\ mpc = "panic"
    /\ \E i \in DOMAIN workers : workers[i] = "panic"
    /\ \E i \in DOMAIN workers : workers[i] = "done"
    /\ \E g \in DOMAIN result : result[g] # CellNull

\* the pieces of s between the bytes sep (slice::split)
RECURSIVE SplitOn(_, _, _)
SplitOn(s, sep, piece) ==
    IF s = <<>> THEN <<piece>>
    ELSE IF Head(s) = sep THEN <<piece>> \o SplitOn(Tail(s), sep, <<>>)
    ELSE SplitOn(Tail(s), sep, Append(piece, Head(s)))

\* the data rows of a file: its lines after the header line, without CR
\* and without the empty piece after a trailing line end
DataRows(file) ==
    LET Kept(c) == c # CR
        lines == SplitOn(SelectSeq(file, Kept), LF, <<>>)
        kept == IF lines[Len(lines)] = <<>>
                THEN SubSeq(lines, 1, Len(lines) - 1) ELSE lines
    IN Tail(kept)

\* the cell the tokenizer gives for the text of one field, read on its own
\* up to a separator
FieldCell(text) == parse_content_on_buffer(text \o <<Comma>>).out[1]

\* the row-major table of the rows: field c of row r at r * column_count + c
RowMajor(rows, column_count) ==
    [g \in 1..(Len(rows) * column_count) |->
        FieldCell(SplitOn(rows[((g - 1) \div column_count) + 1], Comma, <<>>)
                      [((g - 1) % column_count) + 1])]

\* C12: for an input whose data rows each have column_count fields, the
\* table returned by parse and by parse_multi_threaded has length
\* row_count * column_count, and the cell of field c of data row r is at
\* index r * column_count + c.
C12_RowMajorLayout ==
    /\ single.outcome = "returned" =>
           single.column_data = RowMajor(DataRows(mmaped), Len(single.header))
    /\ mpc = "returned" =>
           result = RowMajor(DataRows(mmaped), Len(scanned_header))

(***************************************************************************)
(* Claims on the tokenizers (SpecScan)                                     *)
(***************************************************************************)
\* the states at which a cell is pushed: the boundary states but NewLine
\* (parser.rs lines 649-654, 756-765)
IsCellState(state) == state \in BoundaryStates \ {"NewLine"}

\* the cell states among CsvParser's states, in order
CellStates == SelectSeq(states, IsCellState)

\* the same among the states of parse_state.rs
PsCellStates ==
    SelectSeq([i \in DOMAIN ps_states |-> ps_states[i].n], IsCellState)

\* buf is  "text",digits  and a separator or line feed, the text holding a
\* separator and no quote; q is the index of the closing quote
QuotedThenNumber(buf, q) ==
    /\ q > 2 /\ Len(buf) >= q + 3
    /\ buf[1] = Quote /\ buf[q] = Quote /\ buf[q + 1] = Comma
    /\ \A i \in 2..(q - 1) : buf[i] # Quote
    /\ \E i \in 2..(q - 1) : buf[i] = Comma
    /\ AllDigits(SubSeq(buf, q + 2, Len(buf) - 1))
    /\ buf[Len(buf)] \in {Comma, LF}

\* C13: the row "a,b",2 yields exactly two cells, the String of the bytes
\* between the quotes and then the Integer; the separator after the closing
\* quote gives no cell.
C13_QuotedSeparatorField ==
    Scanned =>
        \A q \in 1..Len(byte_buffer) :
            QuotedThenNumber(byte_buffer, q) =>
                LET cells == <<StringCell(SubSeq(byte_buffer, 2, q - 1)),
                               NumberCell(SubSeq(byte_buffer, q + 2,
                                                 Len(byte_buffer) - 1))>>
                IN /\ ~content.panic /\ content.out = cells
                   /\ ~on_buffer.panic /\ on_buffer.out = cells
                   /\ CellStates = <<"CellQuoteEnd", "CellNumberEnd">>
                   /\ PsCellStates = <<"CellQuoteEnd", "CellNumberEnd">>

\* buf opens with a quoted field of digits only; q is the index of its
\* closing quote
QuotedDigits(buf, q) ==
    /\ q > 2 /\ q <= Len(buf)
    /\ buf[1] = Quote /\ buf[q] = Quote
    /\ AllDigits(SubSeq(buf, 2, q - 1))

\* C14: a quoted field of digits only ("12") reaches CellQuoteNumberEnd at
\* its closing quote and is materialized as an Integer cell.
C14_QuotedNumber ==
    Scanned =>
        \A q \in 1..Len(byte_buffer) :
            QuotedDigits(byte_buffer, q) =>
                /\ states[q] = "CellQuoteNumberEnd"
                /\ ps_states[q].n = "CellQuoteNumberEnd"
                /\ ~content.panic /\ content.out # <<>>
                /\ content.out[1] = NumberCell(SubSeq(byte_buffer, 2, q - 1))
                /\ ~on_buffer.panic /\ on_buffer.out # <<>>
                /\ on_buffer.out[1] = NumberCell(SubSeq(byte_buffer, 2, q - 1))

\* the states named after a number or a decimal
NumberOrDecimalStates ==
    {"CellNumberStart", "CellNumberCurrent", "CellNumberEnd",
     "CellDecimalStart", "CellDecimalCurrent", "CellDecimalEnd",
     "CellDecimalStartWithPointRead", "CellDecimalCurrentWithPointRead",
     "CellDecimalEndWithPointRead",
     "CellQuoteNumberStart", "CellQuoteNumberCurrent", "CellQuoteNumberEnd",
     "CellQuoteDecimalStart", "CellQuoteDecimalCurrent", "CellQuoteDecimalEnd",
     "CellQuoteDecimalStartWithPointRead",
     "CellQuoteDecimalCurrentWithPointRead",
     "CellQuoteDecimalEndWithPointRead"}

\* the first j bytes of buf are the start of one cell of digits, points and
\* spaces, unquoted or after an opening quote
NumericPrefix(buf, j) ==
    /\ j >= 1 /\ j <= Len(buf)
    /\ \A i \in 1..j : \/ IsDigit(buf[i]) \/ buf[i] \in {Point, Space}
                       \/ (i = 1 /\ buf[i] = Quote)

\* two points or more among the first j bytes
TwoPoints(buf, j) == Cardinality({i \in 1..j : buf[i] = Point}) >= 2

\* the bytes that end a cell
CellEnds == {Comma, LF, Quote}

\* C15: once a second '.' has been read within one cell, unquoted or
\* quoted, no later digits, points or spaces bring the tokenizer back to a
\* number or decimal state, and the state reached at the byte that ends the
\* cell is none either: the cell is classified as String (3.5.6 is a String).
C15_SecondPointDemotes ==
    /\ \A j \in 1..Len(states) :
           (NumericPrefix(byte_buffer, j) /\ TwoPoints(byte_buffer, j)) =>
               states[j] \notin NumberOrDecimalStates
    /\ \A j \in 1..Len(ps_states) :
           (NumericPrefix(byte_buffer, j) /\ TwoPoints(byte_buffer, j)) =>
               ps_states[j].n \notin NumberOrDecimalStates
    /\ \A j \in 2..Len(states) :
           (/\ NumericPrefix(byte_buffer, j - 1)
            /\ TwoPoints(byte_buffer, j - 1)
            /\ byte_buffer[j] \in CellEnds) =>
               /\ states[j] \notin NumberOrDecimalStates
               /\ Classify(states[j]) = "String"
    /\ \A j \in 2..Len(ps_states) :
           (/\ NumericPrefix(byte_buffer, j - 1)
            /\ TwoPoints(byte_buffer, j - 1)
            /\ byte_buffer[j] \in CellEnds) =>
               /\ ps_states[j].n \notin NumberOrDecimalStates
               /\ Classify(ps_states[j].n) = "String"
    /\ (/\ Scanned
        /\ NumericPrefix(byte_buffer, Len(byte_buffer) - 1)
        /\ TwoPoints(byte_buffer, Len(byte_buffer) - 1)
        /\ byte_buffer[Len(byte_buffer)] \in CellEnds) =>
           /\ ~content.panic /\ ~on_buffer.panic
           /\ \A i \in DOMAIN content.out :
                  content.out[i].tag \in {"String", "Null"}
           /\ \A i \in DOMAIN on_buffer.out :
                  on_buffer.out[i].tag \in {"String", "Null"}

\* 3.5.6 and the separator have been read: the state is CellSep and the cell
\* pushed is the String "3.5.6"
C15_Witness ==
    /\ Scanned
    /\ byte_buffer = <<51, 46, 53, 46, 54, 44>>
    /\ states[4] = "CellCurrent" /\ states[6] = "CellSep"
    /\ ps_states[6].n = "CellSep"
    /\ on_buffer.out = <<StringCell(<<51, 46, 53, 46, 54>>)>>
    /\ content.out = <<StringCell(<<51, 46, 53, 46, 54>>)>>

\* digits with exactly one decimal point, a digit first: 3. or 3.5
DecimalText(text) ==
    /\ text # <<>> /\ IsDigit(text[1])
    /\ \A i \in 1..Len(text) : IsDigit(text[i]) \/ text[i] = Point
    /\ Cardinality({i \in 1..Len(text) : text[i] = Point}) = 1

\* buf opens with an unquoted decimal ended at index j by a separator or a
\* line feed
UnquotedDecimal(buf, j) ==
    /\ j >= 2 /\ j <= Len(buf)
    /\ DecimalText(SubSeq(buf, 1, j - 1))
    /\ buf[j] \in {Comma, LF}

\* buf opens with a quoted decimal whose closing quote is at index j
QuotedDecimal(buf, j) ==
    /\ j >= 3 /\ j <= Len(buf)
    /\ buf[1] = Quote /\ buf[j] = Quote
    /\ DecimalText(SubSeq(buf, 2, j - 1))

\* C16: a field of digits with exactly one decimal point (3. or 3.5),
\* unquoted or quoted, reaches a decimal boundary state at the separator,
\* line feed or closing quote that ends it, and is materialized as a Float.
C16_DecimalField ==
    Scanned =>
        \A j \in 1..Len(byte_buffer) :
            /\ UnquotedDecimal(byte_buffer, j) =>
                   /\ states[j] \in {"CellDecimalEnd",
                                     "CellDecimalEndWithPointRead"}
                   /\ ps_states[j].n \in {"CellDecimalEnd",
                                          "CellDecimalEndWithPointRead"}
                   /\ ~content.panic /\ content.out # <<>>
                   /\ content.out[1] = DecimalCell(SubSeq(byte_buffer, 1, j - 1))
                   /\ ~on_buffer.panic /\ on_buffer.out # <<>>
                   /\ on_buffer.out[1] =
                          DecimalCell(SubSeq(byte_buffer, 1, j - 1))
            /\ QuotedDecimal(byte_buffer, j) =>
                   /\ states[j] \in {"CellQuoteDecimalEnd",
                                     "CellQuoteDecimalEndWithPointRead"}
                   /\ ps_states[j].n \in {"CellQuoteDecimalEnd",
                                          "CellQuoteDecimalEndWithPointRead"}
                   /\ ~content.panic /\ content.out # <<>>
                   /\ content.out[1] = DecimalCell(SubSeq(byte_buffer, 2, j - 1))
                   /\ ~on_buffer.panic /\ on_buffer.out # <<>>
                   /\ on_buffer.out[1] =
                          DecimalCell(SubSeq(byte_buffer, 2, j - 1))

\* buf is an unquoted integer or decimal of n bytes, then CR LF
NumberThenCrLf(buf, n) ==
    /\ n >= 1 /\ Len(buf) = n + 2
    /\ AllDigits(SubSeq(buf, 1, n)) \/ DecimalText(SubSeq(buf, 1, n))
    /\ buf[n + 1] = CR /\ buf[n + 2] = LF

\* the first boundary state among a and b
FirstBoundary(a, b) == IF a \in BoundaryStates THEN a ELSE b

\* C17: an unquoted integer or decimal that ends a row is classified the
\* same way (integer or float) whether the row ends with CR LF or with LF:
\* the boundary state reached after CR LF classifies the cell as the
\* boundary state reached after LF alone does.
C17_CrLfSameAsLf ==
    Scanned =>
        \A n \in 1..Len(byte_buffer) :
            NumberThenCrLf(byte_buffer, n) =>
                /\ Classify(FirstBoundary(states[n + 1], states[n + 2]))
                   = Classify(CsvParser_get_scan_state_from_data(states[n], LF))
                /\ Classify(FirstBoundary(ps_states[n + 1].n,
                                          ps_states[n + 2].n))
                   = Classify(ParseState_get_scan_state_from_data(
                                  ps_states[n], LF).n)
                /\ on_buffer.out =
                       parse_content_on_buffer(
                           Append(SubSeq(byte_buffer, 1, n), LF)).out
                /\ content.out =
                       ScanContent(Append(SubSeq(byte_buffer, 1, n), LF),
                                   ScanInit, 0).out

\* buf is one field and its separator: the integer or decimal buf[a..b]
\* with spaces before or after it
SpacedNumber(buf, a, b) ==
    /\ 1 <= a /\ a <= b /\ b < Len(buf)
    /\ buf[Len(buf)] = Comma
    /\ a > 1 \/ b < Len(buf) - 1
    /\ \A i \in 1..(a - 1) : buf[i] = Space
    /\ \A i \in (b + 1)..(Len(buf) - 1) : buf[i] = Space
    /\ AllDigits(SubSeq(buf, a, b)) \/ DecimalText(SubSeq(buf, a, b))

\* the cell of a trimmed integer or decimal text
NumericCell(text) ==
    IF AllDigits(text) THEN NumberCell(text) ELSE DecimalCell(text)

\* C18: a field with spaces around a number (' 42 ', or '3 ' before a
\* separator) is converted to the Integer or Float of the trimmed text: the
\* conversion does not fault and the cell is not a String.
C18_SpacesTrimmed ==
    Scanned =>
        \A a \in 1..Len(byte_buffer) : \A b \in 1..Len(byte_buffer) :
            SpacedNumber(byte_buffer, a, b) =>
                /\ ~on_buffer.panic
                /\ on_buffer.out = <<NumericCell(SubSeq(byte_buffer, a, b))>>
                /\ ~content.panic
                /\ content.out = <<NumericCell(SubSeq(byte_buffer, a, b))>>

\* the text of one field: an integer, a decimal, the letters a.., or the
\* letters between quotes
FieldText(text) ==
    /\ text # <<>>
    /\ \/ AllDigits(text)
       \/ DecimalText(text)
       \/ \A i \in 1..Len(text) : text[i] = 97
       \/ /\ Len(text) >= 3 /\ text[1] = Quote /\ text[Len(text)] = Quote
          /\ \A i \in 2..(Len(text) - 1) : text[i] = 97

\* buf is one field, its separator, and the separator of an empty field
FieldThenEmpty(buf) ==
    /\ Len(buf) >= 3
    /\ buf[Len(buf)] = Comma /\ buf[Len(buf) - 1] = Comma
    /\ FieldText(SubSeq(buf, 1, Len(buf) - 2))

\* C19: an empty field (two consecutive separators), whatever the type of
\* the field before it, gives exactly one Null cell, at its position in the
\* row: after the one cell of the field before it.
C19_EmptyFieldOneNull ==
    (Scanned /\ FieldThenEmpty(byte_buffer)) =>
        /\ ~on_buffer.panic /\ Len(on_buffer.out) = 2
        /\ on_buffer.out[1] # CellNull /\ on_buffer.out[2] = CellNull
        /\ ~content.panic /\ Len(content.out) = 2
        /\ content.out[1] # CellNull /\ content.out[2] = CellNull
        /\ Len(CellStates) = 2 /\ Len(PsCellStates) = 2

\* C20: scan_header terminates on every finite buffer: when the header line
\* is not followed by a line break, scanning stops at the end of the buffer
\* and returns the column names read so far.
C20_ScanHeaderTerminates ==
    /\ single.outcome # "hang"
    /\ mpc # "hang"
    /\ (mpc \notin {"start", "idle"} /\ mmaped = HeaderLine) =>
           scanned_header = scan_header(HeaderLine \o <<LF>>).header

(***************************************************************************)
(* SpecHeader: scan_header on one buffer, one arm of its loop per step     *)
(***************************************************************************)
MaxHdrLen == 4

\* the bytes of the header buffers: x , " LF CR and the space
HdrBytes == {120, Comma, Quote, LF, CR, Space}

RECURSIVE HdrBuffers(_)
HdrBuffers(n) ==
    IF n = 0 THEN {<<>>}
    ELSE LET shorter == HdrBuffers(n - 1)
         IN shorter \cup {Append(b, c) : b \in {s \in shorter : Len(s) = n - 1},
                                         c \in HdrBytes}

\* longer header lines:  "x" CR LF    x,"x" CR LF    x,,x LF    "x,x",x LF
\*                       x,x CR LF
HdrSamples ==
    {<<34, 120, 34, 13, 10>>,
     <<120, 44, 34, 120, 34, 13, 10>>,
     <<120, 44, 44, 120, 10>>,
     <<34, 120, 44, 120, 34, 44, 120, 10>>,
     <<120, 44, 120, 13, 10>>}

\* CsvParser::new: offset 0, state Start, no name scanned
InitHeader ==
    /\ hdr_buffer \in HdrBuffers(MaxHdrLen) \cup HdrSamples
    /\ hdr_offset = 0 /\ hdr_state = "Start" /\ hdr_scanned = <<>>
    /\ hdr_pc = "skip"
    /\ InferIdle /\ FoldIdle /\ PartIdle /\ PipeIdle /\ ScanIdle
    /\ FrameIdle /\ WriteIdle

\* scan_header, before the loop: skip_whitespace
HdrSkipWhitespace ==
    /\ hdr_pc = "skip"
    /\ hdr_offset' = skip_whitespace(hdr_buffer, hdr_offset)
    /\ hdr_pc' = "loop"
    /\ UNCHANGED <<hdr_buffer, hdr_state, hdr_scanned, inferVars, foldVars,
                   partVars, pipeVars, scanVars, frameVars, writeVars>>

\* the arm HeaderQuoteStart: scan_header_quote, then push the name
HdrQuoteStart ==
    /\ hdr_pc = "loop" /\ hdr_state = "HeaderQuoteStart"
    /\ LET r == scan_header_quote(hdr_buffer, hdr_offset)
       IN IF r.hang
          THEN /\ hdr_pc' = "hang"
               /\ UNCHANGED <<hdr_state, hdr_offset, hdr_scanned>>
          ELSE /\ hdr_state' = r.state
               /\ hdr_offset' = r.offset
               /\ hdr_scanned' = Append(hdr_scanned, r.name)
               /\ UNCHANGED hdr_pc
    /\ UNCHANGED <<hdr_buffer, inferVars, foldVars, partVars, pipeVars,
                   scanVars, frameVars, writeVars>>

\* the arm HeaderString: scan_header_string, then push the name
HdrString ==
    /\ hdr_pc = "loop" /\ hdr_state = "HeaderString"
    /\ LET r == scan_header_string(hdr_buffer, hdr_offset)
       IN IF r.hang
          THEN /\ hdr_pc' = "hang"
               /\ UNCHANGED <<hdr_state, hdr_offset, hdr_scanned>>
          ELSE /\ hdr_state' = r.state
               /\ hdr_offset' = r.offset
               /\ hdr_scanned' = Append(hdr_scanned, r.name)
               /\ UNCHANGED hdr_pc
    /\ UNCHANGED <<hdr_buffer, inferVars, foldVars, partVars, pipeVars,
                   scanVars, frameVars, writeVars>>

\* the arm HeaderQuoteEnd | HeaderSep: move_next, then scan_start
HdrNextField ==
    /\ hdr_pc = "loop" /\ hdr_state \in {"HeaderQuoteEnd", "HeaderSep"}
    /\ hdr_offset' = hdr_offset + 1
    /\ hdr_state' = scan_start(hdr_buffer, hdr_offset + 1)
    /\ UNCHANGED <<hdr_buffer, hdr_scanned, hdr_pc, inferVars, foldVars,
                   partVars, pipeVars, scanVars, frameVars, writeVars>>

\* the arms Start and `_`: scan_start at the current byte
HdrStart ==
    /\ hdr_pc = "loop"
    /\ hdr_state \notin {"HeaderQuoteStart", "HeaderString", "NewLine",
                         "HeaderQuoteEnd", "HeaderSep"}
    /\ hdr_state' = scan_start(hdr_buffer, hdr_offset)
    /\ UNCHANGED <<hdr_buffer, hdr_offset, hdr_scanned, hdr_pc, inferVars,
                   foldVars, partVars, pipeVars, scanVars, frameVars,
                   writeVars>>

\* the arm NewLine: break, and return (header_scanned, offset)
HdrNewLine ==
    /\ hdr_pc = "loop" /\ hdr_state = "NewLine"
    /\ hdr_pc' = "returned"
    /\ UNCHANGED <<hdr_buffer, hdr_offset, hdr_state, hdr_scanned, inferVars,
                   foldVars, partVars, pipeVars, scanVars, frameVars,
                   writeVars>>

NextHeader ==
    \/ HdrSkipWhitespace
    \/ HdrQuoteStart
    \/ HdrString
    \/ HdrNextField
    \/ HdrStart
    \/ HdrNewLine

SpecHeader == InitHeader /\ [][NextHeader]_vars

\* the steps of SpecHeader compute scan_header
HeaderStepsAgree ==
    /\ hdr_pc = "returned" =>
          scan_header(hdr_buffer) =
              [hang |-> FALSE, header |-> hdr_scanned, offset |-> hdr_offset]
    /\ hdr_pc = "hang" => scan_header(hdr_buffer).hang

\* a quote was opened at hdr_offset and no quote follows it in the buffer
UnclosedQuote ==
    /\ hdr_state = "HeaderQuoteStart"
    /\ FirstOf(hdr_buffer, hdr_offset + 1, {Quote}) = -1

\* C21: when a quote is opened in the header and never closed before the
\* end of the buffer, the step of scan_header that reads the quoted name
\* does not stay in scan_header_quote for ever: it pushes the rest of the
\* buffer as a column name and scan_header goes on.
C21_UnclosedQuoteTerminates ==
    [][(hdr_pc = "loop" /\ UnclosedQuote) =>
          /\ hdr_pc' # "hang"
          /\ hdr_scanned' = Append(hdr_scanned,
                                   Slice(hdr_buffer, hdr_offset + 1,
                                         Len(hdr_buffer)))]_vars

(***************************************************************************)
(* dframe.rs, iter/mod.rs: DataFrame and DataFrameColumnIterator           *)
(* SpecFrame: a DataFrame returned by parse or parse_multi_threaded, then  *)
(* iter_col(col) and calls of next()                                       *)
(***************************************************************************)
\* dframe.rs lines 45-47
DataFrame_hlen(df) == Len(df.header)

\* dframe.rs lines 39-41
DataFrame_len(df) == Len(df.column_data) \div DataFrame_hlen(df)

\* header.iter().position(|c| c == col): the first index, -1 for None
Position(header, name) ==
    LET hits == {i \in 0..(Len(header) - 1) : header[i + 1] = name}
    IN IF hits = {} THEN -1 ELSE Min(hits)

\* iter/mod.rs lines 71-81
DataFrameColumnIterator_new(col_size, offset) ==
    [index |-> offset, col_size |-> col_size]

\* the files of Spec, and the same files under the header line "x,x"
FrameFiles ==
    LET files == UNION {{FileOf(rows, eol, trailing) :
                            rows \in [1..k -> RowTexts],
                            eol \in {<<LF>>, <<CR, LF>>},
                            trailing \in BOOLEAN} : k \in 0..MaxRows}
    IN files \cup {<<120, 44, 120>> \o SubSeq(f, 4, Len(f)) : f \in files}

\* DataFrame::new(column_data, header) at the end of parse and of
\* parse_multi_threaded
Frames ==
    LET single_runs == {parse(f) : f \in FrameFiles}
        multi_runs == {parse_multi_threaded(f, n) :
                          f \in FrameFiles, n \in 1..MaxWorkers}
    IN {[column_data |-> r.column_data, header |-> r.header] :
           r \in {s \in single_runs : s.outcome = "returned"}}
       \cup {[column_data |-> r.column_data, header |-> r.header] :
                r \in {s \in multi_runs : s.outcome = "returned"}}

\* the arguments given to nth: 0 .. MaxNth
MaxNth == 3

\* the names asked for: "x", "y", "z"
ColNames == {<<120>>, <<121>>, <<122>>}

InitFrame ==
    /\ frame \in Frames
    /\ col = <<>> /\ iter = NoIter /\ yielded = <<>> /\ fr_pc = "frame"
    /\ nth_out = NoNth
    /\ InferIdle /\ FoldIdle /\ PartIdle /\ PipeIdle /\ ScanIdle
    /\ HdrIdle /\ WriteIdle

\* dframe.rs lines 66-74: iter_col(name)
IterCol ==
    /\ fr_pc = "frame"
    /\ \E name \in ColNames :
          /\ col' = name
          /\ IF Position(frame.header, name) = -1
             THEN /\ fr_pc' = "absent"
                  /\ UNCHANGED iter
             ELSE /\ fr_pc' = "iterating"
                  /\ iter' = DataFrameColumnIterator_new(
                                 DataFrame_hlen(frame),
                                 Position(frame.header, name))
    /\ UNCHANGED <<frame, yielded, nth_out, inferVars, foldVars, partVars,
                   pipeVars, scanVars, hdrVars, writeVars>>

\* iter/mod.rs lines 87-95: next()
IterNext ==
    /\ fr_pc = "iterating"
    /\ IF iter.index >= Len(frame.column_data)
       THEN /\ fr_pc' = "ended"
            /\ UNCHANGED <<iter, yielded>>
       ELSE /\ yielded' = Append(yielded, At(frame.column_data, iter.index))
            /\ iter' = [iter EXCEPT !.index = iter.index + iter.col_size]
            /\ UNCHANGED fr_pc
    /\ UNCHANGED <<frame, col, nth_out, inferVars, foldVars, partVars,
                   pipeVars, scanVars, hdrVars, writeVars>>

\* iter/mod.rs lines 105-113: nth(n) on the column iterator. The index of
\* the iterator is added to n * col_size and is not moved; an index past
\* the end of the cells panics.
DataFrameColumnIterator_nth(data_frame, it, n) ==
    IF n >= Len(data_frame) \div it.col_size
    THEN [n |-> n, outcome |-> "None", at |-> 0]
    ELSE LET start == n * it.col_size + it.index
         IN IF start < Len(data_frame)
            THEN [n |-> n, outcome |-> "Some", at |-> start]
            ELSE [n |-> n, outcome |-> "panic", at |-> start]

IterNth ==
    /\ fr_pc \in {"iterating", "ended"}
    /\ \E n \in 0..MaxNth :
          nth_out' = DataFrameColumnIterator_nth(frame.column_data, iter, n)
    /\ fr_pc' = IF nth_out'.outcome = "panic" THEN "panic" ELSE fr_pc
    /\ UNCHANGED <<frame, col, iter, yielded, inferVars, foldVars, partVars,
                   pipeVars, scanVars, hdrVars, writeVars>>

NextFrame ==
    \/ IterCol
    \/ IterNext
    \/ IterNth

SpecFrame == InitFrame /\ [][NextFrame]_vars

\* the cells of column i of the rows 0 .. row_count - 1 of a frame
ColumnCells(df, i) ==
    [r \in 1..DataFrame_len(df) |->
        At(df.column_data, (r - 1) * DataFrame_hlen(df) + i)]

\* the frame holds whole rows only
WholeRows(df) ==
    Len(df.column_data) = DataFrame_len(df) * DataFrame_hlen(df)

\* C22: iter_col(name) returns no iterator when no header entry equals
\* name; otherwise, with i the first header index equal to name, the calls
\* of next() yield the cells at r * column_count + i for r = 0 .. row_count
\* - 1, in that order, exactly row_count of them, and then end.
C22_IterColYieldsColumn ==
    /\ fr_pc = "absent" => \A j \in DOMAIN frame.header : frame.header[j] # col
    /\ fr_pc \in {"iterating", "ended"} =>
          /\ Position(frame.header, col) # -1
          /\ Len(yielded) <= DataFrame_len(frame)
          /\ yielded = SubSeq(ColumnCells(frame, Position(frame.header, col)),
                              1, Len(yielded))
    /\ fr_pc = "ended" =>
          yielded = ColumnCells(frame, Position(frame.header, col))

\* on a frame of whole rows the column iterator does yield the column
IterColOnWholeRows == WholeRows(frame) => C22_IterColYieldsColumn

RECURSIVE SumLens(_)
SumLens(views) ==
    IF views = <<>> THEN 0 ELSE Head(views).len + SumLens(Tail(views))

\* the views have been derived from the shard descriptors
ViewsDerived == mpc \in {"spawning", "joining", "returned", "panic", "crashed"}

\* C23: split_slices yields one view per shard descriptor, view i of length
\* row_count_i * column_count and starting where view i - 1 ends; the
\* lengths sum to the length of the allocated array, so the views in shard
\* order make up the array and every view lies inside the allocation.
C23_ViewsTileAllocation ==
    ViewsDerived =>
        /\ Len(sliced_buffer) = Len(length)
        /\ \A i \in DOMAIN sliced_buffer :
              /\ sliced_buffer[i].len = length[i][1] * Len(scanned_header)
              /\ sliced_buffer[i].off =
                    IF i = 1 THEN 0
                    ELSE sliced_buffer[i - 1].off + sliced_buffer[i - 1].len
              /\ sliced_buffer[i].off + sliced_buffer[i].len <= Len(result)
        /\ SumLens(sliced_buffer) = Len(result)

\* the part of C23 that the code keeps: one view per descriptor, of length
\* row_count_i * column_count, each starting where the one before ends
ViewsContiguous ==
    ViewsDerived =>
        /\ Len(sliced_buffer) = Len(length)
        /\ \A i \in DOMAIN sliced_buffer :
              /\ sliced_buffer[i].len = length[i][1] * Len(scanned_header)
              /\ sliced_buffer[i].off =
                    IF i = 1 THEN 0
                    ELSE sliced_buffer[i - 1].off + sliced_buffer[i - 1].len

\* what the views add up to: column_count cells more than the allocation
ViewsOverhang ==
    ViewsDerived =>
        SumLens(sliced_buffer) = Len(result) + Len(scanned_header)

\* C24: the bounds and the disjointness of the views are checked before the
\* concurrent phase: when the view lengths add up to more than the allocated
\* length, or two views overlap, parse_multi_threaded fails before any
\* tokenizing worker is spawned.
C24_ViewsCheckedBeforeSpawn ==
    (ViewsDerived
     /\ (\/ SumLens(sliced_buffer) > Len(result)
         \/ \E i, j \in DOMAIN sliced_buffer :
               /\ i < j
               /\ sliced_buffer[j].off
                     < sliced_buffer[i].off + sliced_buffer[i].len
               /\ sliced_buffer[i].off
                     < sliced_buffer[j].off + sliced_buffer[j].len))
    => \A i \in DOMAIN workers : workers[i] = "idle"

(***************************************************************************)
(* SpecWrite: parse_multi_threaded with the workers of the second scope    *)
(* taken one stored cell at a time, so that their writes interleave        *)
(***************************************************************************)
MaxWriteRows == 2

InitWrite ==
    /\ \E k \in 0..MaxWriteRows : \E rows \in [1..k -> RowTexts] :
       \E eol \in {<<LF>>, <<CR, LF>>} : \E trailing \in BOOLEAN :
           mmaped = FileOf(rows, eol, trailing)
    /\ total_threads \in 1..MaxWorkers
    /\ single = NotCalled
    /\ mpc = "start" /\ scanned_header = <<>> /\ result = <<>>
    /\ sliced_buffer = <<>> /\ workers = <<>> /\ oob = FALSE
    /\ arr_index = [i \in 1..(MaxWorkers + 1) |-> 0]
    /\ writers = {}
    /\ InferIdle /\ FoldIdle /\ PartIdle /\ ScanIdle
    /\ HdrIdle /\ FrameIdle

\* the cells the worker of shard i emits from its byte range, in order
WorkerCells(i) ==
    parse_content_on_buffer(Slice(mmaped_buffer, length[i][2], length[i][3]))

\* lines 756-762, 788-793: the worker of shard i emits its next cell; the
\* cell is stored when arr_index is an index of the view, and arr_index
\* goes up by one. A store past the end of the array is recorded in oob.
WorkerWrite(i) ==
    /\ i \in DOMAIN workers
    /\ workers[i] = "spawned"
    /\ arr_index[i] < Len(WorkerCells(i).out)
    /\ LET view == sliced_buffer[i]
           at == view.off + arr_index[i]
       IN IF arr_index[i] < view.len
          THEN /\ writers' = writers \cup {<<at, i>>}
               /\ IF at < Len(result)
                  THEN /\ result' = [result EXCEPT
                                ![at + 1] = WorkerCells(i).out[arr_index[i] + 1]]
                       /\ UNCHANGED oob
                  ELSE /\ oob' = TRUE
                       /\ UNCHANGED result
          ELSE UNCHANGED <<writers, result, oob>>
    /\ arr_index' = [arr_index EXCEPT ![i] = arr_index[i] + 1]
    /\ UNCHANGED <<mmaped, total_threads, single, mpc, scanned_header,
                   sliced_buffer, workers, inferVars, foldVars, partVars,
                   scanVars, hdrVars, frameVars>>

\* the closure of the worker of shard i ends: it returns, or it panics in
\* convert_from_slice after the cells it has emitted
WorkerEnd(i) ==
    /\ i \in DOMAIN workers
    /\ workers[i] = "spawned"
    /\ arr_index[i] = Len(WorkerCells(i).out)
    /\ workers' = [workers EXCEPT
                      ![i] = IF WorkerCells(i).panic THEN "panic" ELSE "done"]
    /\ UNCHANGED <<mmaped, total_threads, single, mpc, scanned_header, result,
                   sliced_buffer, oob, inferVars, foldVars, partVars,
                   scanVars, hdrVars, frameVars, writeVars>>

NextWrite ==
    \/ Parse
    \/ ScanHeader
    \/ Partition
    \/ AllocSplit
    \/ SpawnWorker
    \/ \E i \in 1..(MaxWorkers + 1) : WorkerWrite(i)
    \/ \E i \in 1..(MaxWorkers + 1) : WorkerEnd(i)
    \/ ScopeEnd

SpecWrite == InitWrite /\ [][NextWrite]_vars

\* the writes one at a time end as the function says
WriteStepsAgree ==
    /\ mpc = "returned" =>
           /\ parse_multi_threaded(mmaped, total_threads).outcome = "returned"
           /\ parse_multi_threaded(mmaped, total_threads).column_data = result
           /\ parse_multi_threaded(mmaped, total_threads).oob = oob
    /\ mpc = "panic" =>
           parse_multi_threaded(mmaped, total_threads).outcome = "panic"

\* the indices of a view
ViewIndices(view) == view.off..(view.off + view.len - 1)

\* C25: in the tokenize-and-write phase the views of different workers do
\* not overlap, every index a worker has written lies in its own view (the
\* cells it emits past the view's length are not stored), and so no index
\* has been written by two workers, whatever the interleaving.
C25_WritesStayInOwnView ==
    /\ \A i, j \in DOMAIN sliced_buffer :
          i # j => ViewIndices(sliced_buffer[i])
                      \cap ViewIndices(sliced_buffer[j]) = {}
    /\ \A w \in writers : w[1] \in ViewIndices(sliced_buffer[w[2]])
    /\ \A v, w \in writers : v[1] = w[1] => v[2] = w[2]

\* two workers are running, both have stored cells, and one of them has
\* emitted more cells than its view holds
C25_Witness ==
    \E i, j \in DOMAIN workers :
        /\ i # j
        /\ workers[i] = "spawned" /\ workers[j] = "spawned"
        /\ \E v, w \in writers : v[2] = i /\ w[2] = j
        /\ arr_index[i] > sliced_buffer[i].len

\* C26: the DataFrame is built, and parse_multi_threaded returns (or hands
\* on a worker's panic), only after every tokenizing worker has ended: in no
\* reachable state is a worker idle or running once the call is over.
C26_ReturnsAfterAllWorkers ==
    mpc \in {"returned", "panic"} =>
        \A i \in DOMAIN workers : workers[i] \in {"done", "panic"}

\* the call has returned a frame that several workers have written
C26_Witness ==
    /\ mpc = "returned"
    /\ Len(workers) >= 2
    /\ \A i \in DOMAIN workers : workers[i] = "done"
    /\ \E v, w \in writers : v[2] # w[2]

\* the counting tasks spawned so far: those joined and the one in flight
SpawnedCounts == Len(length) + (IF ptask.st = "none" THEN 0 ELSE 1)

\* C27: one counting task is spawned per shard and the tasks run in
\* parallel: all of them are spawned before the first of them is joined.
C27_CountsSpawnedBeforeFirstJoin ==
    (ppc \in {"count", "counted"} /\ Len(length) >= 1) =>
        SpawnedCounts = Len(slices)

\* what the code does instead: at most one counting task exists at a time,
\* and it is the task of the range after the last one joined
CountsOneAtATime ==
    ppc \in {"count", "counted"} =>
        /\ SpawnedCounts <= Len(length) + 1
        /\ ptask.st # "none" => ptask.idx = Len(length) + 1

\* C28: every interior shard boundary lies at a line-feed byte, for every
\* buffer and shard count, also when no LF follows a candidate cut offset:
\* the end of every shard but the last is the offset of an LF (or an end
\* of the buffer), so no shard starts or ends in the middle of a row.
C28_BoundariesAtLF ==
    ppc = "counted" =>
        \A i \in 1..(Len(length) - 1) :
            \/ length[i][3] = 0
            \/ length[i][3] >= Len(mmaped_buffer)
            \/ At(mmaped_buffer, length[i][3]) = LF

\* C29: called with shard count n >= 1 the partitioner returns exactly n
\* shard descriptors, n = 1 included.
C29_OneDescriptorPerShard ==
    ppc = "counted" => Len(length) = thread_number

\* the offsets at which a line of the buffer starts
LineStarts(buf) ==
    {0} \cup {j + 1 : j \in {k \in 0..(Len(buf) - 1) : At(buf, k) = LF}}

\* the lines of the buffer that start in the byte range [start, end)
RowsIn(buf, start, end) ==
    Cardinality({s \in LineStarts(buf) : start <= s /\ s < end})

\* C30: each descriptor's row_count is the exact number of logical rows in
\* that shard's byte range, for every shard, the last one included.
C30_RowCountPerShardExact ==
    (ppc = "counted" /\ mmaped_buffer # <<>>) =>
        \A i \in DOMAIN length :
            length[i][1] = RowsIn(mmaped_buffer, length[i][2], length[i][3])

\* the states inside a quoted field, before its closing quote
QuotedContext ==
    {"CellQuoteStart", "CellQuoteCurrent", "CellQuoteNumberStart",
     "CellQuoteNumberCurrent", "CellQuoteDecimalStart",
     "CellQuoteDecimalCurrent", "CellQuoteDecimalStartWithPointRead",
     "CellQuoteDecimalCurrentWithPointRead"}

\* C31: from every quoted-context state reached from Start, every byte other
\* than the quote (a digit, a point, a separator, a letter, a line feed, ..)
\* leads to a quoted-context state again: only the quote leaves the quoted
\* context.
C31_OnlyQuoteLeavesQuotedContext ==
    \A i \in 1..(Len(ps_states) - 1) :
        (ps_states[i].n \in QuotedContext /\ byte_buffer[i + 1] # Quote)
            => ps_states[i + 1].n \in QuotedContext

\* the part of C31 that the code keeps: plain quoted text (CellQuoteStart,
\* CellQuoteCurrent) is left by the quote only
QuoteCurrentStays ==
    \A i \in 1..(Len(ps_states) - 1) :
        (ps_states[i].n \in {"CellQuoteStart", "CellQuoteCurrent"}
         /\ byte_buffer[i + 1] # Quote)
            => ps_states[i + 1].n \in QuotedContext

\* the unquoted number and decimal states of a field that is being read
PartialNumeric ==
    {"CellNumberStart", "CellNumberCurrent", "CellDecimalStart",
     "CellDecimalCurrent", "CellDecimalStartWithPointRead",
     "CellDecimalCurrentWithPointRead"}

\* the sub-states a suspension may remember for the state it was entered
\* from: the state itself or the Current state of its kind
Remembers(state) ==
    CASE state \in {"CellNumberStart", "CellNumberCurrent"} ->
            {"CellNumberStart", "CellNumberCurrent"}
      [] state \in {"CellDecimalStart", "CellDecimalCurrent"} ->
            {"CellDecimalStart", "CellDecimalCurrent"}
      [] OTHER ->
            {"CellDecimalStartWithPointRead",
             "CellDecimalCurrentWithPointRead"}

\* C32: a space read in a partially read unquoted number or decimal state
\* leads to SkippedAssumeEndWhitespace carrying that number or decimal
\* sub-state, never to a boundary state or a string state.
C32_SpaceSuspendsNumeric ==
    \A i \in 1..(Len(ps_states) - 1) :
        (ps_states[i].n \in PartialNumeric /\ byte_buffer[i + 1] = Space)
            => /\ ps_states[i + 1].n = "SkippedAssumeEndWhitespace"
               /\ ps_states[i + 1].v \in Remembers(ps_states[i].n)

\* the part of C32 that the code keeps: a space after the digits of an
\* integer suspends with CellNumberCurrent
SpaceSuspendsNumber ==
    \A i \in 1..(Len(ps_states) - 1) :
        (ps_states[i].n \in {"CellNumberStart", "CellNumberCurrent"}
         /\ byte_buffer[i + 1] = Space)
            => ps_states[i + 1] = SkippedAssumeEndWhitespace("CellNumberCurrent")

\* the bytes that resolve a suspended state: separator, quote, CR, LF
DecisiveBytes == {Comma, Quote, CR, LF}

\* C33: for every suspended state SkippedAssumeEndWhitespace(v) reached from
\* Start and every decisive byte b (separator, quote, CR, LF), the state
\* after b is the state the remembered sub-state v itself gives on b, as if
\* the whitespace in between had not been there.
C33_SuspensionResolvesAsRemembered ==
    \A i \in 1..(Len(ps_states) - 1) :
        (ps_states[i].n = "SkippedAssumeEndWhitespace"
         /\ byte_buffer[i + 1] \in DecisiveBytes)
            => ps_states[i + 1] =
                   ParseState_get_scan_state_from_data(PS(ps_states[i].v),
                                                       byte_buffer[i + 1])

\* the part of C33 that the code keeps: at a separator or a line feed the
\* suspension resolves to a boundary state of the same cell type as the one
\* the remembered sub-state gives
SuspensionKeepsCellType ==
    \A i \in 1..(Len(ps_states) - 1) :
        (ps_states[i].n = "SkippedAssumeEndWhitespace"
         /\ byte_buffer[i + 1] \in {Comma, LF})
            => /\ ps_states[i + 1].n \in BoundaryStates
               /\ Classify(ps_states[i + 1].n) =
                     Classify(ParseState_get_scan_state_from_data(
                                  PS(ps_states[i].v), byte_buffer[i + 1]).n)

\* the sub-states a suspension is entered with (parse_state.rs lines 422,
\* 427, 469, 474)
SuspendedPayloads ==
    {"CellNumberCurrent", "CellDecimalCurrent",
     "CellDecimalCurrentWithPointRead"}

\* C40: in every state reached from Start through get_scan_state_from_data
\* the payload of SkippedAssumeEndWhitespace is CellNumberCurrent,
\* CellDecimalCurrent or CellDecimalCurrentWithPointRead, so resolving the
\* suspension through get_end_of_parse_state gives a number-end or a
\* decimal-end boundary state.
C40_SuspendedPayloadIsNumeric ==
    \A i \in DOMAIN ps_states :
        ps_states[i].n = "SkippedAssumeEndWhitespace" =>
            /\ ps_states[i].v \in SuspendedPayloads
            /\ PrevState_get_end_of_parse_state(ps_states[i].v).n
                  \in {"CellNumberEnd", "CellDecimalEnd",
                       "CellDecimalEndWithPointRead"}
            /\ (i < Len(ps_states) /\ byte_buffer[i + 1] \in {Comma, LF, Quote})
                  => ps_states[i + 1].n
                        \in {"CellNumberEnd", "CellDecimalEnd",
                             "CellDecimalEndWithPointRead"}

\* a suspended integer or decimal that has seen a space has been resolved
\* at a separator or a line feed: the buffer is  1 ' ' ,  and the like
C40_Witness ==
    /\ Scanned
    /\ \E i \in 1..(Len(ps_states) - 1) :
          /\ ps_states[i] \in {SkippedAssumeEndWhitespace("CellNumberCurrent"),
                               SkippedAssumeEndWhitespace(
                                   "CellDecimalCurrentWithPointRead")}
          /\ byte_buffer[i + 1] \in {Comma, LF}
          /\ ps_states[i + 1].n \in {"CellNumberEnd",
                                     "CellDecimalEndWithPointRead"}
          /\ \E j \in 1..i : byte_buffer[j] = Space

\* buf holds no quote and ends with an unquoted field of letters, from
\* index a on, and the line feed after it
StringThenLF(buf, a) ==
    /\ 1 <= a /\ a < Len(buf)
    /\ \A i \in 1..Len(buf) : buf[i] # Quote
    /\ buf[Len(buf)] = LF
    /\ \A i \in a..(Len(buf) - 1) : buf[i] = 97
    /\ a = 1 \/ buf[a - 1] = Comma

\* the last cell of a scan, Null when it has none
LastCell(sc) == IF sc.out = <<>> THEN CellNull ELSE sc.out[Len(sc.out)]

\* C34: a cell is materialized at the boundary states, the line-end boundary
\* included: when the tokenizer reaches NewLine with a field not yet
\* emitted (the row's last field is an unquoted string), the cell of that
\* field is written to the output, as at a separator.
C34_LineEndEmitsPendingField ==
    Scanned =>
        \A a \in 1..Len(byte_buffer) :
            StringThenLF(byte_buffer, a) =>
                /\ states[Len(states)] = "NewLine"
                /\ ~on_buffer.panic
                /\ LastCell(on_buffer)
                      = StringCell(SubSeq(byte_buffer, a, Len(byte_buffer) - 1))
                /\ ~content.panic
                /\ LastCell(content)
                      = StringCell(SubSeq(byte_buffer, a, Len(byte_buffer) - 1))

\* what the code does at that line end: NewLine is reached and nothing is
\* written
LineEndDropsPendingString ==
    Scanned =>
        \A a \in 1..Len(byte_buffer) :
            StringThenLF(byte_buffer, a) =>
                /\ states[Len(states)] = "NewLine"
                /\ on_buffer.out =
                      parse_content_on_buffer(
                          SubSeq(byte_buffer, 1, a - 1)).out

\* C35: no tokenizing worker starts before every line-counting task has been
\* joined and the flat array has been allocated and split into views: the
\* two fork-join phases never overlap, and the phases come in the order
\* header scan, counting, allocation and split, tokenize-and-write, table
\* construction.
C35_PhasesInOrder ==
    /\ mpc = "start" => ppc = "idle" /\ scanned_header = <<>>
    /\ mpc \in {"start", "counting", "hang"} =>
          workers = <<>> /\ result = <<>> /\ sliced_buffer = <<>>
    /\ ptask.st # "none" => mpc = "counting" /\ workers = <<>>
    /\ (\E i \in DOMAIN workers : workers[i] # "idle") =>
          /\ mpc \in {"spawning", "joining", "returned", "panic", "crashed"}
          /\ ppc = "counted" /\ ptask.st = "none"
          /\ Len(length) = Len(slices)
          /\ Len(sliced_buffer) = Len(length)
          /\ Len(result) = (SumCounts(length) - 1) * Len(scanned_header)
    /\ mpc \in {"returned", "panic"} =>
          \A i \in DOMAIN workers : workers[i] \in {"done", "panic"}

\* a worker is storing cells while another is not spawned yet, after three
\* counting tasks have been joined
C35_Witness ==
    /\ mpc = "spawning"
    /\ Len(length) >= 3
    /\ \E i, j \in DOMAIN workers :
          /\ workers[i] = "spawned" /\ arr_index[i] >= 1
          /\ workers[j] = "idle"

\* the separators scan_header reads on the header line: the times its loop
\* (lines 251-285), from `state` at `offset`, is in the state HeaderSep. A
\* quoted name runs to the next quote, an unquoted name to the next
\* separator, CR or LF, and the line ends at NewLine
RECURSIVE HeaderSeparators(_, _, _)
HeaderSeparators(buf, state, offset) ==
    CASE state = "HeaderQuoteStart" ->
            LET r == scan_header_quote(buf, offset)
            IN IF r.hang THEN 0
               ELSE HeaderSeparators(buf, r.state, r.offset)
      [] state = "HeaderString" ->
            LET r == scan_header_string(buf, offset)
            IN IF r.hang THEN 0
               ELSE HeaderSeparators(buf, r.state, r.offset)
      [] state = "NewLine" -> 0
      [] state = "HeaderSep" ->
            1 + HeaderSeparators(buf, scan_start(buf, offset + 1), offset + 1)
      [] state = "HeaderQuoteEnd" ->
            HeaderSeparators(buf, scan_start(buf, offset + 1), offset + 1)
      [] OTHER ->
            HeaderSeparators(buf, scan_start(buf, offset), offset)

\* the fields of the header line: one more than the separators read on it
HeaderFields(buf) ==
    HeaderSeparators(buf, "Start", skip_whitespace(buf, 0)) + 1

\* the buffer starts with its header line (no whitespace before it)
StartsWithHeader(buf) == buf # <<>> /\ skip_whitespace(buf, 0) = 0

\* C36: scan_header returns one name per separator-delimited field of the
\* header line, in order: a line of k fields (empty fields included, and a
\* quoted last field followed by CR LF included) gives exactly k names.
C36_OneNamePerHeaderField ==
    (hdr_pc = "returned" /\ StartsWithHeader(hdr_buffer)) =>
        Len(hdr_scanned) = HeaderFields(hdr_buffer)

\* the part of C36 that the code keeps: a line of non-empty unquoted fields
\* gives one name per field
UnquotedHeaderNames ==
    (/\ hdr_pc = "returned" /\ StartsWithHeader(hdr_buffer)
     /\ hdr_buffer[1] = 120 /\ hdr_buffer[Len(hdr_buffer)] # Comma
     /\ \A i \in 1..Len(hdr_buffer) : hdr_buffer[i] \in {120, Comma, LF}
     /\ \A j \in 1..(Len(hdr_buffer) - 1) :
           hdr_buffer[j] = Comma => hdr_buffer[j + 1] = 120) =>
        Len(hdr_scanned) = HeaderFields(hdr_buffer)

\* the text of the last field of the last data row of a file
LastField(file) ==
    LET rows == DataRows(file)
        fields == SplitOn(rows[Len(rows)], Comma, <<>>)
    IN fields[Len(fields)]

\* C37: the last field of the input, which is followed by the end of the
\* buffer (trailing whitespace is trimmed before tokenizing), is
\* materialized as a cell with its parsed value by parse and by
\* parse_multi_threaded: it is the last cell of the table.
C37_LastFieldMaterialized ==
    DataRows(mmaped) # <<>> =>
        /\ single.outcome = "returned" =>
               /\ single.column_data # <<>>
               /\ single.column_data[Len(single.column_data)]
                     = FieldCell(LastField(mmaped))
        /\ mpc = "returned" =>
               /\ result # <<>>
               /\ result[Len(result)] = FieldCell(LastField(mmaped))

\* what the code does: no cell of the table comes from the last field; the
\* table is that of the file cut before its last field
LastFieldNeverRead ==
    DataRows(mmaped) # <<>> =>
        LET trimmed == trim_ascii(mmaped)
            cut == SubSeq(trimmed, 1, Len(trimmed) - Len(LastField(mmaped)))
        IN single.outcome = "returned" =>
               single.column_data = parse(cut).column_data

\* C38: for every buffer and shard count n >= 2, every range computed by
\* get_total_lines_in_a_file has byte_start <= byte_end <= buffer length,
\* also when one line is longer than len / n: slicing the buffer for a
\* shard never faults.
C38_RangesWithinBuffer ==
    thread_number >= 2 =>
        /\ ppc # "panic"
        /\ \A i \in DOMAIN slices :
              /\ slices[i][1] <= slices[i][2]
              /\ slices[i][2] <= Len(mmaped_buffer)

\* the part of C38 that the code keeps: with two shards the ranges are
\* (0, cut) and (cut, len)
TwoRangesWithinBuffer ==
    thread_number = 2 =>
        /\ ppc # "panic"
        /\ \A i \in DOMAIN slices :
              /\ slices[i][1] <= slices[i][2]
              /\ slices[i][2] <= Len(mmaped_buffer)

\* C39: nth(n) on the column iterator never indexes past the end of the
\* cell array: after any number of next() calls it returns None or the cell
\* at an index smaller than the array length.
C39_NthStaysInBounds ==
    /\ nth_out.outcome # "panic"
    /\ nth_out.outcome = "Some" => nth_out.at < Len(frame.column_data)

\* the part of C39 that the code keeps: before the first next() the index
\* of nth(n) is inside the cells
NthBeforeNextInBounds ==
    (yielded = <<>> /\ fr_pc = "iterating" /\ nth_out.outcome = "Some") =>
        nth_out.at = nth_out.n * DataFrame_hlen(frame)
                     + Position(frame.header, col)

====
